---- MODULE Spec2Model ----
(***************************************************************************)
(* State-machine model of the generic search and sort toolkit              *)
(* (algorithms.c, refined version): linear_search, binary_search,          *)
(* predicate_search, swap, quicksort, selection_sort, insertion_sort.      *)
(*                                                                         *)
(* One routine runs at a time.  `pc` is the position inside the routine,   *)
(* `loc` its local variables, `array` the caller's memory block, `errno`   *)
(* the process-wide error slot.  Array indices are the C indices (from 0). *)
(* An element is a record [k, id]: the comparator orders by k only, id     *)
(* tells apart elements that compare equal.                                *)
(***************************************************************************)
EXTENDS Integers, Sequences, FiniteSets, TLC

VARIABLES
    op,             \* routine being executed
    todo,           \* routines the caller runs next on the same view
    hist,           \* results of the caller's completed calls
    arg,            \* arguments of the current call
    array0,         \* array contents at entry of the current call
    errno0,         \* errno at entry of the current call
    array,          \* array contents
    errno,          \* process-wide error slot
    found_size,     \* the caller's size_t that `found_size` points to
    found,          \* contents of the match buffer
    found_capacity, \* capacity, in elements, the routine believes it has
    heap,           \* allocation status of the blocks the call owns
    ret,            \* returned value
    pc,             \* position in the routine
    loc,            \* local variables
    range_stack,    \* quicksort's explicit stack (sequence of size_t)
    range_stack_capacity,
    g               \* history of the call (callback calls, failures, reads)

vars == <<op, todo, hist, arg, array0, errno0, array, errno, found_size, found,
          found_capacity, heap, ret, pc, loc, range_stack,
          range_stack_capacity, g>>

inputs == <<op, todo, hist, arg, array0, errno0>>

-----------------------------------------------------------------------------
(* Bounds of the model. *)

\* longest array of the exhaustive input family
MaxLen == 3
\* number of distinct comparator classes (keys 1..MaxKey)
MaxKey == 3
\* width of size_t in bits
SizeBits == 8
\* callback invocations per call that may signal an error
MaxCbErrors == 1
\* longest array in calls with invalid or overflowing arguments
MaxLenArgs == 1
\* longest array given to the sorts
MaxSortLen == 4
\* largest byte value in the arrays of bytes (bytes 1..MaxByte)
MaxByte == 2

(* Program constants. *)

\* size_t found_capacity = 16;
InitialFoundCapacity == 16
\* size_t range_stack_capacity = 64;
InitialRangeStackCapacity == 64

SIZE_MAX == 2^SizeBits - 1

\* (size_t)-1, the "undefined" count
SIZE_T_MINUS_1 == SIZE_MAX

\* size_t arithmetic wraps modulo SIZE_MAX + 1
MulSz(a, b) == (a * b) % (SIZE_MAX + 1)

\* value the caller's size_t holds before the call writes it
FoundSizeBefore == SIZE_MAX - 1

Keys == 1..MaxKey

Elem(key, ident) == [k |-> key, id |-> ident]

\* what a read outside the block yields
Junk == Elem(0, 0)

SearchOps == {"linear_search", "binary_search", "predicate_search"}
SortOps == {"quicksort", "selection_sort", "insertion_sort"}

-----------------------------------------------------------------------------
(* Callbacks. *)

\* a comparator of the repository: the difference of one integer field
Compare(a, b) == a.k - b.k

\* the code a callback of the repository stores in errno to signal failure
CallbackErrno == "EINVAL"

\* va_arg on a va_list whose cursor is at position c (1 = first bound argument)
VaArg(pargs, c) == IF c \in 1..Len(pargs) THEN pargs[c] ELSE 0

\* a range predicate of the repository: lower bound, upper bound
Predicate(e, pargs, c) == VaArg(pargs, c) <= e.k /\ e.k <= VaArg(pargs, c + 1)

\* the call repeats the caller's previous call, with a callback that behaves
\* as it did then
Replaying == hist # <<>> /\ hist[Len(hist)].op = op

\* the caller is going to repeat the call
WillRepeat == todo # <<>> /\ Head(todo) = "again"

\* the outcome of the next callback invocation of a repeated call: what the
\* callback signalled at the invocation of the same number in the previous
\* call, or else its regular outcome
Replayed(regular) ==
    LET before == hist[Len(hist)].g.signals
        same == {x \in DOMAIN before : before[x].at = g.ncmp + 1} IN
    IF same = {}
    THEN regular
    ELSE [res |-> before[CHOOSE x \in same : TRUE].res, err |-> TRUE]

\* the results of a comparator that defines no order: anything, whatever its
\* arguments and its earlier results
AnyResult == {-1, 0, 1}

\* the outcomes of one comparator invocation: the result and whether the
\* comparator signalled an error (stored CallbackErrno in errno)
CompareOutcomes(a, b) ==
    IF arg.order = "none"
    THEN {[res |-> r, err |-> FALSE] : r \in AnyResult}
    ELSE IF Replaying
    THEN {Replayed([res |-> Compare(a, b), err |-> FALSE])}
    ELSE {[res |-> Compare(a, b), err |-> FALSE]}
         \cup (IF g.cberrs < MaxCbErrors
               THEN {[res |-> r, err |-> TRUE] : r \in {-1, 0, 1}}
               ELSE {})

PredicateOutcomes(e, pargs, c) ==
    IF Replaying
    THEN {Replayed([res |-> Predicate(e, pargs, c), err |-> FALSE])}
    ELSE {[res |-> Predicate(e, pargs, c), err |-> FALSE]}
         \cup (IF g.cberrs < MaxCbErrors
               THEN {[res |-> r, err |-> TRUE] : r \in BOOLEAN}
               ELSE {})

\* errno after a callback invocation with outcome o
ErrnoAfter(o) == IF o.err THEN CallbackErrno ELSE errno

\* errno differs after a callback invocation with outcome o
ErrnoChanged(o) == ErrnoAfter(o) # errno

\* a test that never sees the change
SavedErrnoNeverDiffers(saved_errno, o) == FALSE

\* if (saved_errno != errno) after a callback invocation with outcome o
SavedErrnoDiffers(saved_errno, o) == saved_errno # ErrnoAfter(o)

\* what the call had done when a callback invocation first changed errno
AtChange == [ncmp |-> g.ncmp + 1, nswap |-> g.nswap, array |-> array,
             found |-> found]

\* the call history after a callback invocation with outcome o
Called(o) == [g EXCEPT !.ncmp = @ + 1,
                       !.cberrs = @ + (IF o.err THEN 1 ELSE 0),
                       !.signals = IF o.err /\ WillRepeat
                                   THEN Append(@, [at |-> g.ncmp + 1,
                                                   res |-> o.res])
                                   ELSE @,
                       !.changed = IF @ = <<>> /\ ErrnoChanged(o)
                                   THEN <<AtChange>> ELSE @]

-----------------------------------------------------------------------------
(* Memory. *)

InBounds(idx) == idx >= 0 /\ idx < Len(array)

\* the element at C index idx of the caller's block
At(idx) == IF InBounds(idx) THEN array[idx + 1] ELSE Junk

\* a free() that is missing
FreeMissing(status) == status

\* free(): status of a block after it is freed
Free(status) ==
    CASE status = "live" -> "freed"
      [] status = "freed" -> "freed_twice"
      [] OTHER -> status

\* malloc()/realloc() of n bytes: the outcomes (TRUE = a block is returned)
AllocOutcomes(n) == BOOLEAN

\* the call history after an allocation attempt with outcome ok
Allocated(h, ok) == [h EXCEPT !.nalloc = @ + 1,
                              !.alloc_failed = @ \/ ~ok]

\* the call history after the elements at the C indices in s were accessed
Touched(h, s) == [h EXCEPT !.touched = @ \cup s]

-----------------------------------------------------------------------------
(* Calls: the state at entry of a routine. *)

LocInit ==
    [i |-> 0, j |-> 0, left |-> 0, right |-> 0, low |-> 0, high |-> 0,
     mid |-> 0, middle |-> 0, found_idx |-> 0, leftmost_idx |-> 0,
     rightmost_idx |-> 0, saved_errno |-> "0", cmp_low_mid |-> 0,
     cmp_low_high |-> 0, cmp_mid_high |-> 0, median |-> 0, min_element |-> 0,
     predicate_args |-> 1, pivot_pos |-> 0, base |-> 0, size |-> 0,
     pivot |-> 0, left_size |-> 0, right_size |-> 0, caller |-> 0,
     right_part |-> 0, partitioned |-> FALSE, pending |-> <<>>]

GInit ==
    [ncmp |-> 0, cberrs |-> 0, nalloc |-> 0, alloc_failed |-> FALSE,
     nswap |-> 0, path |-> "running", touched |-> {}, seen_args |-> {},
     skipped |-> {}, changed |-> <<>>, signals |-> <<>>, tmp |-> "none",
     last_swap |-> <<>>, selected |-> <<>>, placed |-> {},
     last_partition |-> <<>>, requests |-> <<>>]

HeapInit == [found |-> "none", range_stack |-> "none"]

\* the locals, buffers and history of a call that has not started
FreshCall ==
    /\ found_size = FoundSizeBefore
    /\ found = <<>>
    /\ found_capacity = 0
    /\ heap = HeapInit
    /\ ret = "none"
    /\ pc = "entry"
    /\ loc = LocInit
    /\ range_stack = <<>>
    /\ range_stack_capacity = 0
    /\ g = GInit

ArraysOfLen(n) ==
    {[i \in 1..n |-> Elem(f[i], i)] : f \in [1..n -> Keys]}

ShortArrays == UNION {ArraysOfLen(n) : n \in 0..MaxLen}

\* arrays with enough elements of key 2 to overfill the match buffer once and
\* twice, alone (b = 0) or between an element of key 1 and one of key 3
LongArrays ==
    {[i \in 1..(n + 2 * b) |->
            Elem(IF b = 1 /\ i = 1 THEN 1
                 ELSE IF b = 1 /\ i = n + 2 THEN 3
                 ELSE 2, i)] :
        n \in {InitialFoundCapacity + 1, 2 * InitialFoundCapacity + 1},
        b \in {0, 1}}

ArgArrays == UNION {ArraysOfLen(n) : n \in 0..MaxLenArgs}

TypeSizes == {1, 2}

\* the least element size whose product with the initial capacity of the
\* match buffer is above SIZE_MAX
WideTypeSize == (SIZE_MAX + 1) \div InitialFoundCapacity

\* the element sizes of the calls on array A: the wide one with an array of
\* no element, where nothing is copied into a buffer of a wrapped byte count
TypeSizesOf(A) ==
    IF Len(A) = 0 THEN TypeSizes \cup {WideTypeSize}
    ELSE IF Len(A) <= MaxLenArgs THEN TypeSizes
    ELSE {2}

Targets == {Elem(key, 0) : key \in Keys}

BoundArgs == {<<lo, hi>> : lo \in Keys, hi \in Keys}

ErrnoValues == {"0", CallbackErrno}

\* the callers' scripts: searches, and a linear search followed by a binary
\* search of the same view
SearchScripts ==
    {<<"linear_search", "binary_search">>, <<"binary_search">>,
     <<"predicate_search">>}

Args(an, tn, cn, fn, sz, ts, t, pa, cons) ==
    [array_null |-> an, target_null |-> tn, callback_null |-> cn,
     found_size_null |-> fn, size |-> sz, type_size |-> ts, target |-> t,
     pargs |-> pa, consume |-> cons, order |-> "field"]

\* the argument records of calls to routine o on array A
ValidArgs(o, A) ==
    {Args(FALSE, FALSE, FALSE, FALSE, Len(A), ts, t, pa, cons) :
        ts \in TypeSizesOf(A),
        t \in (IF o \in SortOps \/ o = "predicate_search"
               THEN {Elem(1, 0)} ELSE Targets),
        pa \in (IF o = "predicate_search" THEN BoundArgs ELSE {<<>>}),
        cons \in (IF o = "predicate_search" THEN {0, 2} ELSE {0})}

\* NULL pointers and a zero type_size, in every combination with at least
\* one of them, also together with a size that would overflow
InvalidArgs(o, A) ==
    {a \in {Args(an, tn, cn, fn, sz, ts, Elem(1, 0), <<1, 1>>, 0) :
                an \in BOOLEAN,
                tn \in (IF o \in {"linear_search", "binary_search"}
                        THEN BOOLEAN ELSE {FALSE}),
                cn \in BOOLEAN,
                fn \in (IF o \in SearchOps THEN BOOLEAN ELSE {FALSE}),
                sz \in {Len(A), SIZE_MAX},
                ts \in {0, 1, 2}} :
        a.array_null \/ a.target_null \/ a.callback_null
            \/ a.found_size_null \/ a.type_size = 0}

\* valid pointers with size * type_size above SIZE_MAX
OverflowArgs(o, A) ==
    {Args(FALSE, FALSE, FALSE, FALSE, sz, ts, Elem(1, 0), <<1, 1>>, 0) :
        ts \in {2, SIZE_MAX},
        sz \in {(SIZE_MAX \div 2) + 1, SIZE_MAX}}

InitCall(script, A, a, e) ==
    /\ op = Head(script)
    /\ todo = Tail(script)
    /\ hist = <<>>
    /\ arg = a
    /\ array0 = (IF a.array_null THEN <<>> ELSE A)
    /\ array = array0
    /\ errno0 = e
    /\ errno = e
    /\ FreshCall

InitValid(scripts, arrays, errnos) ==
    \E script \in scripts, A \in arrays, e \in errnos :
        \E a \in ValidArgs(Head(script), A) : InitCall(script, A, a, e)

InitBadArgs(ops) ==
    \E o \in ops, A \in ArgArrays, e \in ErrnoValues :
        \E a \in InvalidArgs(o, A) \cup OverflowArgs(o, A) :
            InitCall(<<o>>, A, a, e)

-----------------------------------------------------------------------------
(* Returning. *)

\* the updates of a return of value v on the return path named label
Return(v, label, h) ==
    /\ ret' = v
    /\ pc' = "done"
    /\ g' = [h EXCEPT !.path = label]

-----------------------------------------------------------------------------
(* linear_search *)

\* the argument check of linear_search and binary_search
SearchArgsInvalid ==
    \/ arg.array_null
    \/ arg.target_null
    \/ arg.type_size = 0
    \/ arg.callback_null
    \/ arg.found_size_null

\* the guard written as a product, which wraps
SizeOverflowsByProduct == MulSz(arg.size, arg.type_size) > SIZE_MAX

\* if (size > SIZE_MAX / type_size)
SizeOverflows == arg.size > SIZE_MAX \div arg.type_size

\* the store without the NULL test
MarkUndefinedUnchecked == SIZE_T_MINUS_1

\* if (found_size != NULL) *found_size = (size_t)-1;
MarkUndefined == IF arg.found_size_null THEN found_size ELSE SIZE_T_MINUS_1

\* the test compare_result >= 0 in place of compare_result == 0
IsMatchOrGreater(compare_result) == compare_result >= 0

\* compare_result == 0: the element is a match
IsMatch(compare_result) == compare_result = 0

\* one more element of capacity at each growth
GrownByOne(capacity) == capacity + 1

\* the call history after a malloc() or realloc() of the match buffer for
\* the given number of elements: why it was asked, the byte count passed,
\* the match count and the capacity before, and what it gave
Requested(h, why, elements, ok) ==
    [h EXCEPT !.requests =
        Append(@, [why |-> why, elements |-> elements,
                   bytes |-> MulSz(elements, arg.type_size),
                   count |-> IF why = "create" THEN 0 ELSE found_size,
                   capacity |-> IF why = "create" THEN 0 ELSE found_capacity,
                   ok |-> ok])]

\* found = realloc(found, ...): the result of the shrink is returned as it is
AfterTrimAssigned(ok) == IF ok THEN "found" ELSE "NULL"

\* if (trimmed != NULL) found = trimmed; return found;
AfterTrim(ok) == "found"

\* if (*found_size >= found_capacity): the buffer must grow
MustGrow(count, capacity) == count >= capacity

\* found_capacity *= 2
Grown(capacity) == MulSz(capacity, 2)

LinearEntry ==
    /\ op = "linear_search" /\ pc = "entry"
    /\ UNCHANGED <<inputs, array, loc, range_stack, range_stack_capacity,
                   found>>
    /\ IF SearchArgsInvalid
       THEN /\ errno' = "EINVAL"
            /\ found_size' = MarkUndefined
            /\ Return("NULL", "einval", g)
            /\ UNCHANGED <<found_capacity, heap>>
       ELSE IF SizeOverflows
       THEN /\ errno' = "EOVERFLOW"
            /\ found_size' = SIZE_T_MINUS_1
            /\ Return("NULL", "eoverflow", g)
            /\ UNCHANGED <<found_capacity, heap>>
       ELSE /\ found_capacity' = InitialFoundCapacity
            /\ \E ok \in AllocOutcomes(MulSz(InitialFoundCapacity, arg.type_size)) :
                IF ok
                THEN /\ heap' = [heap EXCEPT !.found = "live"]
                     /\ found_size' = 0
                     /\ pc' = "loop"
                     /\ g' = Requested(Allocated(g, TRUE), "create",
                                       InitialFoundCapacity, TRUE)
                     /\ UNCHANGED <<errno, ret>>
                ELSE /\ errno' = "ENOMEM"
                     /\ found_size' = SIZE_T_MINUS_1
                     /\ Return("NULL", "enomem",
                               Requested(Allocated(g, FALSE), "create",
                                         InitialFoundCapacity, FALSE))
                     /\ UNCHANGED heap

\* one iteration of the scan: compare, and append a match
LinearIteration ==
    /\ op = "linear_search" /\ pc = "loop"
    /\ loc.i < arg.size
    /\ UNCHANGED <<inputs, array, range_stack, range_stack_capacity>>
    /\ \E o \in CompareOutcomes(At(loc.i), arg.target) :
        LET h == Touched(Called(o), {loc.i}) IN
        IF SavedErrnoDiffers(errno, o)
        THEN /\ errno' = ErrnoAfter(o)
             /\ heap' = [heap EXCEPT !.found = Free(@)]
             /\ found_size' = SIZE_T_MINUS_1
             /\ Return("NULL", "callback", h)
             /\ UNCHANGED <<found, found_capacity, loc>>
        ELSE IF ~IsMatch(o.res)
        THEN /\ loc' = [loc EXCEPT !.i = @ + 1]
             /\ g' = h
             /\ UNCHANGED <<errno, found, found_capacity, found_size, heap,
                            ret, pc>>
        ELSE IF MustGrow(found_size, found_capacity)
        THEN \E ok \in AllocOutcomes(MulSz(Grown(found_capacity), arg.type_size)) :
             IF ok
             THEN /\ found_capacity' = Grown(found_capacity)
                  /\ found' = Append(found, At(loc.i))
                  /\ found_size' = found_size + 1
                  /\ loc' = [loc EXCEPT !.i = @ + 1]
                  /\ g' = Requested(Allocated(h, TRUE), "grow",
                                    Grown(found_capacity), TRUE)
                  /\ UNCHANGED <<errno, heap, ret, pc>>
             ELSE /\ found_capacity' = Grown(found_capacity)
                  /\ heap' = [heap EXCEPT !.found = Free(@)]
                  /\ errno' = "ENOMEM"
                  /\ found_size' = SIZE_T_MINUS_1
                  /\ Return("NULL", "enomem",
                            Requested(Allocated(h, FALSE), "grow",
                                      Grown(found_capacity), FALSE))
                  /\ UNCHANGED <<found, loc>>
        ELSE /\ found' = Append(found, At(loc.i))
             /\ found_size' = found_size + 1
             /\ loc' = [loc EXCEPT !.i = @ + 1]
             /\ g' = h
             /\ UNCHANGED <<errno, found_capacity, heap, ret, pc>>

\* after the scan: free an empty buffer, or shrink it to the match count
LinearTrim ==
    /\ op = "linear_search" /\ pc = "loop"
    /\ ~(loc.i < arg.size)
    /\ UNCHANGED <<inputs, array, errno, found_size, found, loc, range_stack,
                   range_stack_capacity>>
    /\ IF found_size = 0
       THEN /\ heap' = [heap EXCEPT !.found = Free(@)]
            /\ Return("NULL", "ok", g)
            /\ UNCHANGED found_capacity
       ELSE \E ok \in AllocOutcomes(MulSz(found_size, arg.type_size)) :
            /\ Return(AfterTrim(ok), "ok",
                      Requested(Allocated(g, ok), "trim", found_size, ok))
            /\ UNCHANGED <<found_capacity, heap>>

-----------------------------------------------------------------------------
(* binary_search *)

\* size_t subtraction wraps modulo SIZE_MAX + 1
SubSz(a, b) == (a - b) % (SIZE_MAX + 1)

\* a probe of the first index of the range, a linear scan
MiddleAtLeft(left, right) == left

\* size_t middle = left + (right - left) / 2;
Middle(left, right) == left + (SubSz(right, left) \div 2)

\* size_t mid = low + (high - low + 1) / 2;
UpperMid(low, high) == low + ((SubSz(high, low) + 1) \div 2)

\* the loop without the middle == 0 exit
NeverStopsAtZero(middle) == FALSE

\* if (middle == 0) break;
StopsAtZero(middle) == middle = 0

\* found_idx != (size_t)-1
WasFound(found_idx) == found_idx # SIZE_T_MINUS_1

\* the run length without the + 1
RunLengthOffByOne(leftmost_idx, rightmost_idx) ==
    SubSz(rightmost_idx, leftmost_idx)

\* rightmost_idx - leftmost_idx + 1
RunLength(leftmost_idx, rightmost_idx) ==
    (SubSz(rightmost_idx, leftmost_idx) + 1) % (SIZE_MAX + 1)

\* what *found_size holds after a comparator error or a failed malloc()
BinaryFailureCount == found_size

\* a search for the rightmost index that starts one past the last element
RightmostHighPastEnd == arg.size

\* low = found_idx, high = size - 1: the upper end of the rightmost search
RightmostHigh == SubSz(arg.size, 1)

\* the first loop is over: start the leftmost search or return no match
BinaryAfterMain(l, h) ==
    IF WasFound(l.found_idx)
    THEN /\ loc' = [l EXCEPT !.low = 0, !.high = l.found_idx]
         /\ pc' = "leftmost"
         /\ g' = h
         /\ UNCHANGED ret
    ELSE /\ loc' = l
         /\ Return("NULL", "ok", h)

BinaryEntry ==
    /\ op = "binary_search" /\ pc = "entry"
    /\ UNCHANGED <<inputs, array, range_stack, range_stack_capacity, found,
                   found_capacity, heap>>
    /\ IF SearchArgsInvalid
       THEN /\ errno' = "EINVAL"
            /\ found_size' = MarkUndefined
            /\ Return("NULL", "einval", g)
            /\ UNCHANGED loc
       ELSE IF SizeOverflows
       THEN /\ errno' = "EOVERFLOW"
            /\ found_size' = SIZE_T_MINUS_1
            /\ Return("NULL", "eoverflow", g)
            /\ UNCHANGED loc
       ELSE IF arg.size = 0
       THEN /\ found_size' = 0
            /\ Return("NULL", "ok", g)
            /\ UNCHANGED <<errno, loc>>
       ELSE /\ found_size' = 0
            /\ loc' = [loc EXCEPT !.left = 0, !.right = SubSz(arg.size, 1),
                                  !.found_idx = SIZE_T_MINUS_1]
            /\ pc' = "main"
            /\ UNCHANGED <<errno, ret, g>>

\* one iteration of the loop that finds one index equal to the target
BinaryMain ==
    /\ op = "binary_search" /\ pc = "main"
    /\ UNCHANGED <<inputs, array, range_stack, range_stack_capacity, found,
                   found_capacity, heap>>
    /\ IF loc.left <= loc.right
       THEN LET middle == Middle(loc.left, loc.right) IN
            \E o \in CompareOutcomes(At(middle), arg.target) :
            LET h == Touched(Called(o), {middle})
                l == [loc EXCEPT !.middle = middle] IN
            /\ errno' = ErrnoAfter(o)
            /\ IF SavedErrnoDiffers(errno, o)
               THEN /\ found_size' = BinaryFailureCount
                    /\ loc' = l
                    /\ Return("NULL", "callback", h)
               ELSE /\ UNCHANGED found_size
                    /\ IF o.res < 0
                       THEN /\ loc' = [l EXCEPT !.left = middle + 1]
                            /\ g' = h
                            /\ UNCHANGED <<ret, pc>>
                       ELSE IF o.res > 0
                       THEN IF StopsAtZero(middle)
                            THEN BinaryAfterMain(l, h)
                            ELSE /\ loc' = [l EXCEPT !.right = SubSz(middle, 1)]
                                 /\ g' = h
                                 /\ UNCHANGED <<ret, pc>>
                       ELSE BinaryAfterMain([l EXCEPT !.found_idx = middle], h)
       ELSE /\ BinaryAfterMain(loc, g)
            /\ UNCHANGED <<errno, found_size>>

\* one iteration of the search for the leftmost index equal to the target
BinaryLeftmost ==
    /\ op = "binary_search" /\ pc = "leftmost"
    /\ UNCHANGED <<inputs, array, range_stack, range_stack_capacity, found,
                   found_capacity, heap>>
    /\ IF loc.low < loc.high
       THEN LET mid == Middle(loc.low, loc.high) IN
            \E o \in CompareOutcomes(At(mid), arg.target) :
            LET h == Touched(Called(o), {mid})
                l == [loc EXCEPT !.mid = mid] IN
            /\ errno' = ErrnoAfter(o)
            /\ IF SavedErrnoDiffers(errno, o)
               THEN /\ found_size' = BinaryFailureCount
                    /\ loc' = l
                    /\ Return("NULL", "callback", h)
               ELSE /\ loc' = (IF o.res < 0 THEN [l EXCEPT !.low = mid + 1]
                                            ELSE [l EXCEPT !.high = mid])
                    /\ g' = h
                    /\ UNCHANGED <<found_size, ret, pc>>
       ELSE /\ loc' = [loc EXCEPT !.leftmost_idx = loc.low,
                                  !.low = loc.found_idx,
                                  !.high = RightmostHigh]
            /\ pc' = "rightmost"
            /\ UNCHANGED <<errno, found_size, ret, g>>

\* one iteration of the search for the rightmost index equal to the target
BinaryRightmost ==
    /\ op = "binary_search" /\ pc = "rightmost"
    /\ UNCHANGED <<inputs, array, range_stack, range_stack_capacity, found,
                   found_capacity, heap>>
    /\ IF loc.low < loc.high
       THEN LET mid == UpperMid(loc.low, loc.high) IN
            \E o \in CompareOutcomes(At(mid), arg.target) :
            LET h == Touched(Called(o), {mid})
                l == [loc EXCEPT !.mid = mid] IN
            /\ errno' = ErrnoAfter(o)
            /\ IF SavedErrnoDiffers(errno, o)
               THEN /\ found_size' = BinaryFailureCount
                    /\ loc' = l
                    /\ Return("NULL", "callback", h)
               ELSE /\ loc' = (IF o.res > 0 THEN [l EXCEPT !.high = SubSz(mid, 1)]
                                            ELSE [l EXCEPT !.low = mid])
                    /\ g' = h
                    /\ UNCHANGED <<found_size, ret, pc>>
       ELSE /\ loc' = [loc EXCEPT !.rightmost_idx = loc.low]
            /\ pc' = "copy"
            /\ UNCHANGED <<errno, found_size, ret, g>>

\* allocate the result buffer and copy the run [leftmost_idx, rightmost_idx]
BinaryCopy ==
    /\ op = "binary_search" /\ pc = "copy"
    /\ UNCHANGED <<inputs, array, range_stack, range_stack_capacity, loc>>
    /\ LET n == RunLength(loc.leftmost_idx, loc.rightmost_idx) IN
       \E ok \in AllocOutcomes(MulSz(n, arg.type_size)) :
       IF ok
       THEN /\ heap' = [heap EXCEPT !.found = "live"]
            /\ found_size' = n
            /\ found_capacity' = n
            /\ found' = [x \in 1..n |-> At(loc.leftmost_idx + x - 1)]
            /\ Return("found", "ok",
                      Touched(Allocated(g, TRUE),
                              loc.leftmost_idx..(loc.leftmost_idx + n - 1)))
            /\ UNCHANGED errno
       ELSE /\ errno' = "ENOMEM"
            /\ found_size' = BinaryFailureCount
            /\ Return("NULL", "enomem", Allocated(g, FALSE))
            /\ UNCHANGED <<heap, found, found_capacity>>

-----------------------------------------------------------------------------
(* predicate_search *)

\* the argument check of predicate_search
PredicateArgsInvalid ==
    \/ arg.array_null
    \/ arg.type_size = 0
    \/ arg.found_size_null
    \/ arg.callback_null

\* va_copy(predicate_args_copy, predicate_args): the list the predicate gets
VaCopy(predicate_args) == predicate_args

\* the predicate is given predicate_args itself and advances it
ArgsAfterCallShared(predicate_args, n) == predicate_args + n

\* predicate_args after the predicate consumed n arguments of the list it got
ArgsAfterCall(predicate_args, n) == predicate_args

PredicateEntry ==
    /\ op = "predicate_search" /\ pc = "entry"
    /\ UNCHANGED <<inputs, array, range_stack, range_stack_capacity, found>>
    /\ IF PredicateArgsInvalid
       THEN /\ errno' = "EINVAL"
            /\ found_size' = MarkUndefined
            /\ Return("NULL", "einval", g)
            /\ UNCHANGED <<found_capacity, heap, loc>>
       ELSE IF SizeOverflows
       THEN /\ errno' = "EOVERFLOW"
            /\ found_size' = SIZE_T_MINUS_1
            /\ Return("NULL", "eoverflow", g)
            /\ UNCHANGED <<found_capacity, heap, loc>>
       ELSE /\ found_capacity' = InitialFoundCapacity
            /\ \E ok \in AllocOutcomes(MulSz(InitialFoundCapacity, arg.type_size)) :
                IF ok
                THEN /\ heap' = [heap EXCEPT !.found = "live"]
                     /\ found_size' = 0
                     /\ loc' = [loc EXCEPT !.predicate_args = 1]
                     /\ pc' = "loop"
                     /\ g' = Requested(Allocated(g, TRUE), "create",
                                       InitialFoundCapacity, TRUE)
                     /\ UNCHANGED <<errno, ret>>
                ELSE /\ errno' = "ENOMEM"
                     /\ found_size' = SIZE_T_MINUS_1
                     /\ Return("NULL", "enomem",
                               Requested(Allocated(g, FALSE), "create",
                                         InitialFoundCapacity, FALSE))
                     /\ UNCHANGED <<heap, loc>>

\* one iteration of the scan: apply the predicate, and append a match
PredicateIteration ==
    /\ op = "predicate_search" /\ pc = "loop"
    /\ loc.i < arg.size
    /\ UNCHANGED <<inputs, array, range_stack, range_stack_capacity>>
    /\ LET predicate_args_copy == VaCopy(loc.predicate_args) IN
       \E o \in PredicateOutcomes(At(loc.i), arg.pargs, predicate_args_copy) :
        LET h == [Touched(Called(o), {loc.i})
                    EXCEPT !.seen_args = @ \cup {predicate_args_copy}]
            l == [loc EXCEPT !.predicate_args =
                                ArgsAfterCall(@, arg.consume)] IN
        IF SavedErrnoDiffers(errno, o)
        THEN /\ errno' = ErrnoAfter(o)
             /\ heap' = [heap EXCEPT !.found = Free(@)]
             /\ found_size' = SIZE_T_MINUS_1
             /\ loc' = l
             /\ Return("NULL", "callback", h)
             /\ UNCHANGED <<found, found_capacity>>
        ELSE IF ~o.res
        THEN /\ loc' = [l EXCEPT !.i = @ + 1]
             /\ g' = h
             /\ UNCHANGED <<errno, found, found_capacity, found_size, heap,
                            ret, pc>>
        ELSE IF MustGrow(found_size, found_capacity)
        THEN \E ok \in AllocOutcomes(MulSz(Grown(found_capacity), arg.type_size)) :
             IF ok
             THEN /\ found_capacity' = Grown(found_capacity)
                  /\ found' = Append(found, At(loc.i))
                  /\ found_size' = found_size + 1
                  /\ loc' = [l EXCEPT !.i = @ + 1]
                  /\ g' = Requested(Allocated(h, TRUE), "grow",
                                    Grown(found_capacity), TRUE)
                  /\ UNCHANGED <<errno, heap, ret, pc>>
             ELSE /\ found_capacity' = Grown(found_capacity)
                  /\ heap' = [heap EXCEPT !.found = Free(@)]
                  /\ errno' = "ENOMEM"
                  /\ found_size' = SIZE_T_MINUS_1
                  /\ loc' = l
                  /\ Return("NULL", "enomem",
                            Requested(Allocated(h, FALSE), "grow",
                                      Grown(found_capacity), FALSE))
                  /\ UNCHANGED found
        ELSE /\ found' = Append(found, At(loc.i))
             /\ found_size' = found_size + 1
             /\ loc' = [l EXCEPT !.i = @ + 1]
             /\ g' = h
             /\ UNCHANGED <<errno, found_capacity, heap, ret, pc>>

\* after the scan: free an empty buffer, or shrink it to the match count
PredicateTrim ==
    /\ op = "predicate_search" /\ pc = "loop"
    /\ ~(loc.i < arg.size)
    /\ UNCHANGED <<inputs, array, errno, found_size, found, loc, range_stack,
                   range_stack_capacity>>
    /\ IF found_size = 0
       THEN /\ heap' = [heap EXCEPT !.found = Free(@)]
            /\ Return("NULL", "ok", g)
            /\ UNCHANGED found_capacity
       ELSE \E ok \in AllocOutcomes(MulSz(found_size, arg.type_size)) :
            /\ Return(AfterTrim(ok), "ok",
                      Requested(Allocated(g, ok), "trim", found_size, ok))
            /\ UNCHANGED <<found_capacity, heap>>

-----------------------------------------------------------------------------
(* The caller. *)

\* what the caller holds after a call
Result ==
    [op |-> op, ret |-> ret, found_size |-> found_size, found |-> found,
     errno |-> errno, array |-> array, g |-> g]

\* the caller runs the next routine of its script on the same view, after a
\* call in which nothing failed; the error slot keeps its value
NextCall ==
    /\ pc = "done"
    /\ todo # <<>> /\ Head(todo) # "again"
    /\ g.path = "ok" /\ g.cberrs = 0 /\ ~g.alloc_failed
    /\ op' = Head(todo)
    /\ todo' = Tail(todo)
    /\ hist' = Append(hist, Result)
    /\ array0' = array
    /\ errno0' = errno
    /\ found_size' = FoundSizeBefore
    /\ found' = <<>>
    /\ found_capacity' = 0
    /\ heap' = HeapInit
    /\ ret' = "none"
    /\ pc' = "entry"
    /\ loc' = LocInit
    /\ range_stack' = <<>>
    /\ range_stack_capacity' = 0
    /\ g' = GInit
    /\ UNCHANGED <<arg, array, errno>>

\* the caller repeats its call with the same arguments on the same array
\* contents, after a call in which no allocation failed, with any value in
\* the error slot
CallAgain ==
    /\ pc = "done"
    /\ todo # <<>> /\ Head(todo) = "again"
    /\ ~g.alloc_failed
    /\ todo' = Tail(todo)
    /\ hist' = Append(hist, Result)
    /\ array' = array0
    /\ \E e \in ErrnoValues :
        /\ errno0' = e
        /\ errno' = e
    /\ found_size' = FoundSizeBefore
    /\ found' = <<>>
    /\ found_capacity' = 0
    /\ heap' = HeapInit
    /\ ret' = "none"
    /\ pc' = "entry"
    /\ loc' = LocInit
    /\ range_stack' = <<>>
    /\ range_stack_capacity' = 0
    /\ g' = GInit
    /\ UNCHANGED <<op, arg, array0>>

SearchSteps ==
    \/ LinearEntry \/ LinearIteration \/ LinearTrim
    \/ BinaryEntry \/ BinaryMain \/ BinaryLeftmost \/ BinaryRightmost
    \/ BinaryCopy
    \/ PredicateEntry \/ PredicateIteration \/ PredicateTrim

NextSearch == SearchSteps \/ NextCall

-----------------------------------------------------------------------------
(* swap *)

\* the array after memmove(a, b, type_size) alone
ExchangedWithoutTmp(arr, a, b) ==
    IF a + 1 \in DOMAIN arr /\ b + 1 \in DOMAIN arr
    THEN [arr EXCEPT ![a + 1] = arr[b + 1]]
    ELSE arr

\* the array with the elements at C indices a and b exchanged
Exchanged(arr, a, b) ==
    IF a + 1 \in DOMAIN arr /\ b + 1 \in DOMAIN arr
    THEN LET tmp == arr[a + 1]
             moved == [arr EXCEPT ![a + 1] = arr[b + 1]] IN
         [moved EXCEPT ![b + 1] = tmp]
    ELSE arr

\* swap without the test a == b
SwapOutcomesNoAliasTest(arr, a, b) ==
    {[rc |-> 0, array |-> Exchanged(arr, a, b), errno |-> errno,
      tried |-> TRUE, ok |-> TRUE],
     [rc |-> -1, array |-> arr, errno |-> "ENOMEM", tried |-> TRUE,
      ok |-> FALSE]}

\* swap(a, b, type_size) on the elements at C indices a and b: the outcomes.
\* rc is the returned value, tried whether malloc() was called and ok what it
\* gave.
SwapOutcomes(arr, a, b) ==
    IF arg.type_size = 0
    THEN {[rc |-> -1, array |-> arr, errno |-> "EINVAL", tried |-> FALSE,
           ok |-> TRUE]}
    ELSE IF a = b
    THEN {[rc |-> 0, array |-> arr, errno |-> errno, tried |-> FALSE,
           ok |-> TRUE]}
    ELSE {[rc |-> 0, array |-> Exchanged(arr, a, b), errno |-> errno,
           tried |-> TRUE, ok |-> TRUE],
          [rc |-> -1, array |-> arr, errno |-> "ENOMEM", tried |-> TRUE,
           ok |-> FALSE]}

\* the call history after a swap with outcome w of the elements at a and b
Swapped(h, w, a, b) ==
    LET h1 == IF w.tried THEN Allocated(h, w.ok) ELSE h IN
    [h1 EXCEPT !.nswap = @ + 1,
               !.tmp = IF w.tried /\ w.ok THEN Free("live") ELSE @,
               !.last_swap = <<[a |-> a, b |-> b, before |-> array,
                                errno |-> errno, w |-> w]>>,
               !.touched = @ \cup (IF w.rc = 0 /\ a # b THEN {a, b} ELSE {})]

-----------------------------------------------------------------------------
(* quicksort *)

\* the argument check of the three sorts
SortArgsInvalid ==
    \/ arg.array_null
    \/ arg.type_size = 0
    \/ arg.callback_null

range_stack_top == Len(range_stack)

\* the middle element taken as the pivot
MedianAlwaysMid(low, mid, high, cmp_low_mid, cmp_low_high, cmp_mid_high) ==
    mid

\* no median selection: the element at high is the pivot
MedianAlwaysHigh(low, mid, high, cmp_low_mid, cmp_low_high, cmp_mid_high) ==
    high

\* the median of the elements at low, mid and high, from the three
\* comparison results
Median(low, mid, high, cmp_low_mid, cmp_low_high, cmp_mid_high) ==
    IF cmp_low_mid < 0
    THEN IF cmp_mid_high < 0 THEN mid
         ELSE IF cmp_low_high >= 0 THEN low
         ELSE high
    ELSE IF cmp_mid_high > 0 THEN mid
         ELSE IF cmp_low_high <= 0 THEN low
         ELSE high

\* the elements of arr at the three sampled positions of the popped range
Sampled(arr) == <<arr[loc.low + 1], arr[loc.mid + 1], arr[loc.high + 1]>>

\* the call history after the median was swapped to high with outcome w
Selected(h, w, median) ==
    [h EXCEPT !.selected = <<[low |-> loc.low, mid |-> loc.mid,
                              high |-> loc.high, median |-> median,
                              before |-> Sampled(array),
                              after |-> Sampled(w.array), rc |-> w.rc]>>]

\* a right pointer that starts two elements before the pivot
RightStartTooFar(high) == high - 2

\* void *right = (void *)((uintptr_t)pivot - type_size);
RightStart(high) == high - 1

\* sub-ranges pushed wherever the pivot is
PushesRangesAlways(pivot_pos) == TRUE

\* if (pivot_pos != 0 && pivot_pos != size - 1): the sub-ranges are pushed
PushesRanges(pivot_pos) == pivot_pos # 0 /\ pivot_pos # arg.size - 1

\* the pivot's own index pushed as a third range
PushedWithPivot(stack, low, high, pivot_pos) ==
    IF PushesRanges(pivot_pos)
    THEN stack \o <<pivot_pos + 1, high, pivot_pos, pivot_pos,
                    low, pivot_pos - 1>>
    ELSE stack

\* the sub-ranges pushed in one order whatever their sizes
PushedLeftLast(stack, low, high, pivot_pos) ==
    IF PushesRanges(pivot_pos)
    THEN stack \o <<pivot_pos + 1, high, low, pivot_pos - 1>>
    ELSE stack

\* the stack after the sub-ranges of [low, high] around pivot_pos are pushed
Pushed(stack, low, high, pivot_pos) ==
    IF PushesRanges(pivot_pos)
    THEN IF pivot_pos - low > high - pivot_pos
         THEN stack \o <<low, pivot_pos - 1, pivot_pos + 1, high>>
         ELSE stack \o <<pivot_pos + 1, high, low, pivot_pos - 1>>
    ELSE stack

\* the sub-ranges of [low, high] around pivot_pos that are not pushed
NotPushed(low, high, pivot_pos) ==
    IF PushesRanges(pivot_pos)
    THEN {}
    ELSE {<<low, pivot_pos - 1>>, <<pivot_pos + 1, high>>}

\* the call history after the sub-ranges of [low, high] were handled
Partitioned(h, low, high, pivot_pos) ==
    [h EXCEPT !.skipped = @ \cup NotPushed(low, high, pivot_pos)]

\* the call history after the pivot was swapped to pivot_pos, which left the
\* array as arr
Placed(h, arr, pivot_pos) ==
    [h EXCEPT !.placed = @ \cup {<<pivot_pos, arr[pivot_pos + 1]>>},
              !.last_partition = <<[low |-> loc.low, high |-> loc.high,
                                    pivot_pos |-> pivot_pos,
                                    array |-> arr,
                                    stack |-> range_stack,
                                    pushed |-> Pushed(range_stack, loc.low,
                                                      loc.high, pivot_pos)]>>]

\* a failing return that leaves the range stack allocated
QuickFailLeaking(label, h) ==
    /\ Return("-1", label, h)
    /\ UNCHANGED heap

\* a failing return of quicksort once the range stack exists
QuickFail(label, h) ==
    /\ heap' = [heap EXCEPT !.range_stack = Free(@)]
    /\ Return("-1", label, h)

\* while (left <= right): continue with the scans or place the pivot
QuickAfterSwap(l, e) ==
    IF l.left <= l.right
    THEN /\ loc' = [l EXCEPT !.saved_errno = e]
         /\ pc' = "lscan"
    ELSE /\ loc' = l
         /\ pc' = "place"

QuickEntry ==
    /\ op = "quicksort" /\ pc = "entry"
    /\ UNCHANGED <<inputs, array, found_size, found, found_capacity, loc>>
    /\ IF SortArgsInvalid
       THEN /\ errno' = "EINVAL"
            /\ Return("-1", "einval", g)
            /\ UNCHANGED <<heap, range_stack, range_stack_capacity>>
       ELSE IF SizeOverflows
       THEN /\ errno' = "EOVERFLOW"
            /\ Return("-1", "eoverflow", g)
            /\ UNCHANGED <<heap, range_stack, range_stack_capacity>>
       ELSE IF arg.size <= 1
       THEN /\ Return("0", "ok", g)
            /\ UNCHANGED <<errno, heap, range_stack, range_stack_capacity>>
       ELSE /\ range_stack_capacity' = InitialRangeStackCapacity
            /\ \E ok \in AllocOutcomes(InitialRangeStackCapacity * 2) :
                IF ok
                THEN /\ heap' = [heap EXCEPT !.range_stack = "live"]
                     /\ range_stack' = <<0, arg.size - 1>>
                     /\ pc' = "pop"
                     /\ g' = Allocated(g, TRUE)
                     /\ UNCHANGED <<errno, ret>>
                ELSE /\ errno' = "ENOMEM"
                     /\ Return("-1", "enomem", Allocated(g, FALSE))
                     /\ UNCHANGED <<heap, range_stack>>

\* pop the next range, or return when the stack is empty
QuickPop ==
    /\ op = "quicksort" /\ pc = "pop"
    /\ UNCHANGED <<inputs, array, errno, found_size, found, found_capacity,
                   range_stack_capacity>>
    /\ IF range_stack_top > 0
       THEN LET high == range_stack[range_stack_top]
                low == range_stack[range_stack_top - 1] IN
            /\ range_stack' = SubSeq(range_stack, 1, range_stack_top - 2)
            /\ loc' = [loc EXCEPT !.low = low, !.high = high,
                                  !.mid = IF low < high
                                          THEN Middle(low, high) ELSE @]
            /\ pc' = (IF low < high THEN "cmp_low_mid" ELSE "pop")
            /\ UNCHANGED <<heap, ret, g>>
       ELSE /\ heap' = [heap EXCEPT !.range_stack = Free(@)]
            /\ Return("0", "ok", g)
            /\ UNCHANGED <<range_stack, loc>>

\* one of the three comparisons of the median selection: compare the
\* elements at a and b, store the result in field and go to next
QuickCompare(at, a, b, field, next) ==
    /\ op = "quicksort" /\ pc = at
    /\ UNCHANGED <<inputs, array, found_size, found, found_capacity,
                   range_stack, range_stack_capacity>>
    /\ \E o \in CompareOutcomes(At(a), At(b)) :
        LET h == Touched(Called(o), {a, b}) IN
        /\ errno' = ErrnoAfter(o)
        /\ loc' = [loc EXCEPT ![field] = o.res, !.saved_errno = errno]
        /\ IF SavedErrnoDiffers(errno, o)
           THEN QuickFail("callback", h)
           ELSE /\ pc' = next
                /\ g' = h
                /\ UNCHANGED <<heap, ret>>

QuickCompareLowMid ==
    QuickCompare("cmp_low_mid", loc.low, loc.mid, "cmp_low_mid", "cmp_low_high")

QuickCompareLowHigh ==
    QuickCompare("cmp_low_high", loc.low, loc.high, "cmp_low_high",
                 "cmp_mid_high")

QuickCompareMidHigh ==
    QuickCompare("cmp_mid_high", loc.mid, loc.high, "cmp_mid_high", "pivot")

\* choose the median, swap it to high and set up the partition pointers
QuickPivot ==
    /\ op = "quicksort" /\ pc = "pivot"
    /\ UNCHANGED <<inputs, found_size, found, found_capacity, range_stack,
                   range_stack_capacity>>
    /\ LET median == Median(loc.low, loc.mid, loc.high, loc.cmp_low_mid,
                            loc.cmp_low_high, loc.cmp_mid_high) IN
       \E w \in SwapOutcomes(array, median, loc.high) :
        LET h == Selected(Swapped(g, w, median, loc.high), w, median)
            l == [loc EXCEPT !.median = median] IN
        /\ array' = w.array
        /\ errno' = w.errno
        /\ IF w.rc = -1
           THEN /\ loc' = l
                /\ QuickFail("swap", h)
           ELSE /\ QuickAfterSwap([l EXCEPT !.left = loc.low,
                                            !.right = RightStart(loc.high)],
                                  errno)
                /\ g' = h
                /\ UNCHANGED <<heap, ret>>

\* one test of the condition of the left scan
QuickLeftScan ==
    /\ op = "quicksort" /\ pc = "lscan"
    /\ UNCHANGED <<inputs, array, found_size, found, found_capacity,
                   range_stack, range_stack_capacity>>
    /\ \E o \in CompareOutcomes(At(loc.left), At(loc.high)) :
        LET h == Touched(Called(o), {loc.left, loc.high}) IN
        /\ errno' = ErrnoAfter(o)
        /\ IF o.res < 0
           THEN IF SavedErrnoDiffers(loc.saved_errno, o)
                THEN /\ QuickFail("callback", h)
                     /\ UNCHANGED loc
                ELSE /\ IF loc.left + 1 > loc.right
                        THEN /\ loc' = [loc EXCEPT !.left = @ + 1,
                                            !.saved_errno = ErrnoAfter(o)]
                             /\ pc' = "rscan"
                        ELSE /\ loc' = [loc EXCEPT !.left = @ + 1]
                             /\ pc' = "lscan"
                     /\ g' = h
                     /\ UNCHANGED <<heap, ret>>
           ELSE /\ loc' = [loc EXCEPT !.saved_errno = ErrnoAfter(o)]
                /\ pc' = "rscan"
                /\ g' = h
                /\ UNCHANGED <<heap, ret>>

\* one test of the condition of the right scan
QuickRightScan ==
    /\ op = "quicksort" /\ pc = "rscan"
    /\ UNCHANGED <<inputs, array, found_size, found, found_capacity,
                   range_stack, range_stack_capacity>>
    /\ IF loc.right >= loc.low
       THEN \E o \in CompareOutcomes(At(loc.right), At(loc.high)) :
            LET h == Touched(Called(o), {loc.right, loc.high}) IN
            /\ errno' = ErrnoAfter(o)
            /\ IF o.res > 0
               THEN IF SavedErrnoDiffers(loc.saved_errno, o)
                    THEN /\ QuickFail("callback", h)
                         /\ UNCHANGED loc
                    ELSE /\ loc' = [loc EXCEPT !.right = @ - 1]
                         /\ pc' = (IF loc.right - 1 < loc.low
                                   THEN "pswap" ELSE "rscan")
                         /\ g' = h
                         /\ UNCHANGED <<heap, ret>>
               ELSE /\ pc' = "pswap"
                    /\ g' = h
                    /\ UNCHANGED <<loc, heap, ret>>
       ELSE /\ pc' = "pswap"
            /\ UNCHANGED <<errno, loc, heap, ret, g>>

\* if (left <= right) swap the two elements and step both pointers
QuickSwap ==
    /\ op = "quicksort" /\ pc = "pswap"
    /\ UNCHANGED <<inputs, found_size, found, found_capacity, range_stack,
                   range_stack_capacity>>
    /\ IF loc.left <= loc.right
       THEN \E w \in SwapOutcomes(array, loc.left, loc.right) :
            LET h == Swapped(g, w, loc.left, loc.right) IN
            /\ array' = w.array
            /\ errno' = w.errno
            /\ IF w.rc = -1
               THEN /\ QuickFail("swap", h)
                    /\ UNCHANGED loc
               ELSE /\ QuickAfterSwap([loc EXCEPT !.left = @ + 1,
                                                  !.right = @ - 1], errno)
                    /\ g' = h
                    /\ UNCHANGED <<heap, ret>>
       ELSE /\ QuickAfterSwap(loc, errno)
            /\ UNCHANGED <<array, errno, heap, ret, g>>

\* swap the pivot to its place and push the sub-ranges
QuickPlace ==
    /\ op = "quicksort" /\ pc = "place"
    /\ UNCHANGED <<inputs, found_size, found, found_capacity>>
    /\ \E w \in SwapOutcomes(array, loc.left, loc.high) :
        LET h == Swapped(g, w, loc.left, loc.high)
            pivot_pos == loc.left
            l == [loc EXCEPT !.pivot_pos = pivot_pos] IN
        /\ array' = w.array
        /\ IF w.rc = -1
           THEN /\ errno' = w.errno
                /\ QuickFail("swap", h)
                /\ UNCHANGED <<loc, range_stack, range_stack_capacity>>
           ELSE IF range_stack_top + 4 > range_stack_capacity * 2
           THEN \E ok \in AllocOutcomes(range_stack_capacity * 4) :
                IF ok
                THEN /\ range_stack_capacity' = range_stack_capacity * 2
                     /\ range_stack' = Pushed(range_stack, loc.low, loc.high,
                                              pivot_pos)
                     /\ loc' = l
                     /\ pc' = "pop"
                     /\ g' = Partitioned(Placed(Allocated(h, TRUE),
                                                w.array, pivot_pos),
                                         loc.low, loc.high, pivot_pos)
                     /\ UNCHANGED <<errno, heap, ret>>
                ELSE /\ errno' = "ENOMEM"
                     /\ loc' = l
                     /\ QuickFail("enomem", Allocated(h, FALSE))
                     /\ UNCHANGED <<range_stack, range_stack_capacity>>
           ELSE /\ range_stack' = Pushed(range_stack, loc.low, loc.high,
                                         pivot_pos)
                /\ loc' = l
                /\ pc' = "pop"
                /\ g' = Partitioned(Placed(h, w.array, pivot_pos), loc.low,
                                    loc.high, pivot_pos)
                /\ UNCHANGED <<errno, heap, ret, range_stack_capacity>>

-----------------------------------------------------------------------------
(* selection_sort *)

\* the scan keeps the first element that is not greater
IsNewMinimumOrEqualFlipped(compare_result) == compare_result > 0

\* compare_result < 0: the j-th element becomes the minimum
IsNewMinimum(compare_result) == compare_result < 0

SelectionEntry ==
    /\ op = "selection_sort" /\ pc = "entry"
    /\ UNCHANGED <<inputs, array, found_size, found, found_capacity, heap,
                   range_stack, range_stack_capacity>>
    /\ IF SortArgsInvalid
       THEN /\ errno' = "EINVAL"
            /\ Return("-1", "einval", g)
            /\ UNCHANGED loc
       ELSE IF SizeOverflows
       THEN /\ errno' = "EOVERFLOW"
            /\ Return("-1", "eoverflow", g)
            /\ UNCHANGED loc
       ELSE IF arg.size > 0
       THEN /\ loc' = [loc EXCEPT !.i = 0]
            /\ pc' = "outer"
            /\ UNCHANGED <<errno, ret, g>>
       ELSE /\ Return("0", "ok", g)
            /\ UNCHANGED <<errno, loc>>

\* for (size_t i = 0; i < size - 1; i++): start the scan for the minimum
SelectionOuter ==
    /\ op = "selection_sort" /\ pc = "outer"
    /\ UNCHANGED <<inputs, array, errno, found_size, found, found_capacity,
                   heap, range_stack, range_stack_capacity>>
    /\ IF loc.i < arg.size - 1
       THEN /\ loc' = [loc EXCEPT !.min_element = loc.i, !.j = loc.i + 1]
            /\ pc' = "inner"
            /\ UNCHANGED <<ret, g>>
       ELSE /\ Return("0", "ok", g)
            /\ UNCHANGED loc

\* one step of the scan for the minimum, or the swap that ends it
SelectionInner ==
    /\ op = "selection_sort" /\ pc = "inner"
    /\ UNCHANGED <<inputs, found_size, found, found_capacity, heap,
                   range_stack, range_stack_capacity>>
    /\ IF loc.j < arg.size
       THEN \E o \in CompareOutcomes(At(loc.j), At(loc.min_element)) :
            LET h == Touched(Called(o), {loc.j, loc.min_element}) IN
            /\ errno' = ErrnoAfter(o)
            /\ UNCHANGED array
            /\ IF SavedErrnoDiffers(errno, o)
               THEN /\ Return("-1", "callback", h)
                    /\ UNCHANGED loc
               ELSE /\ loc' = [loc EXCEPT
                                !.min_element = IF IsNewMinimum(o.res)
                                                THEN loc.j ELSE @,
                                !.j = @ + 1]
                    /\ g' = h
                    /\ UNCHANGED <<ret, pc>>
       ELSE \E w \in SwapOutcomes(array, loc.i, loc.min_element) :
            LET h == Swapped(g, w, loc.i, loc.min_element) IN
            /\ array' = w.array
            /\ errno' = w.errno
            /\ IF w.rc = -1
               THEN /\ Return("-1", "swap", h)
                    /\ UNCHANGED loc
               ELSE /\ loc' = [loc EXCEPT !.i = @ + 1]
                    /\ pc' = "outer"
                    /\ g' = h
                    /\ UNCHANGED ret

-----------------------------------------------------------------------------
(* insertion_sort *)

\* an inner loop that stops only at the front of the array
ReachedSortedPartNever(compare_result) == FALSE

\* compare_result < 0: the element before the j-th is less, the inner loop ends
ReachedSortedPart(compare_result) == compare_result < 0

InsertionEntry ==
    /\ op = "insertion_sort" /\ pc = "entry"
    /\ UNCHANGED <<inputs, array, found_size, found, found_capacity, heap,
                   range_stack, range_stack_capacity>>
    /\ IF SortArgsInvalid
       THEN /\ errno' = "EINVAL"
            /\ Return("-1", "einval", g)
            /\ UNCHANGED loc
       ELSE IF SizeOverflows
       THEN /\ errno' = "EOVERFLOW"
            /\ Return("-1", "eoverflow", g)
            /\ UNCHANGED loc
       ELSE /\ loc' = [loc EXCEPT !.i = 1]
            /\ pc' = "outer"
            /\ UNCHANGED <<errno, ret, g>>

\* for (size_t i = 1; i < size; i++): start moving the i-th element left
InsertionOuter ==
    /\ op = "insertion_sort" /\ pc = "outer"
    /\ UNCHANGED <<inputs, array, errno, found_size, found, found_capacity,
                   heap, range_stack, range_stack_capacity>>
    /\ IF loc.i < arg.size
       THEN /\ loc' = [loc EXCEPT !.j = loc.i]
            /\ pc' = "inner"
            /\ UNCHANGED <<ret, g>>
       ELSE /\ Return("0", "ok", g)
            /\ UNCHANGED loc

\* one iteration of for (size_t j = i; j > 0; j--)
InsertionInner ==
    /\ op = "insertion_sort" /\ pc = "inner"
    /\ UNCHANGED <<inputs, found_size, found, found_capacity, heap,
                   range_stack, range_stack_capacity>>
    /\ IF loc.j > 0
       THEN \E o \in CompareOutcomes(At(loc.j - 1), At(loc.j)) :
            LET h == Touched(Called(o), {loc.j - 1, loc.j}) IN
            IF SavedErrnoDiffers(errno, o)
            THEN /\ errno' = ErrnoAfter(o)
                 /\ Return("-1", "callback", h)
                 /\ UNCHANGED <<array, loc>>
            ELSE IF ReachedSortedPart(o.res)
            THEN /\ loc' = [loc EXCEPT !.i = @ + 1]
                 /\ pc' = "outer"
                 /\ g' = h
                 /\ UNCHANGED <<array, errno, ret>>
            ELSE \E w \in SwapOutcomes(array, loc.j, loc.j - 1) :
                 LET h2 == Swapped(h, w, loc.j, loc.j - 1) IN
                 /\ array' = w.array
                 /\ errno' = w.errno
                 /\ IF w.rc = -1
                    THEN /\ Return("-1", "swap", h2)
                         /\ UNCHANGED loc
                    ELSE /\ loc' = [loc EXCEPT !.j = @ - 1]
                         /\ g' = h2
                         /\ UNCHANGED <<ret, pc>>
       ELSE /\ loc' = [loc EXCEPT !.i = @ + 1]
            /\ pc' = "outer"
            /\ UNCHANGED <<array, errno, ret, g>>

NextSort ==
    \/ QuickEntry \/ QuickPop
    \/ QuickCompareLowMid \/ QuickCompareLowHigh \/ QuickCompareMidHigh
    \/ QuickPivot \/ QuickLeftScan \/ QuickRightScan \/ QuickSwap
    \/ QuickPlace
    \/ SelectionEntry \/ SelectionOuter \/ SelectionInner
    \/ InsertionEntry \/ InsertionOuter \/ InsertionInner

-----------------------------------------------------------------------------
(* Specifications. *)

SortArrays == UNION {ArraysOfLen(n) : n \in 0..MaxSortLen}

SortScripts == {<<o>> : o \in SortOps}

InitSort ==
    \/ InitValid(SortScripts, SortArrays, {"0"})
    \/ InitValid(SortScripts, ShortArrays, ErrnoValues)
    \/ InitBadArgs(SortOps)

SpecSort == InitSort /\ [][NextSort]_vars

InitSearch ==
    \/ InitValid(SearchScripts, ShortArrays, ErrnoValues)
    \/ InitValid(SearchScripts, LongArrays, {"0"})
    \/ InitBadArgs(SearchOps)

SpecSearch == InitSearch /\ [][NextSearch]_vars

\* every routine on the shortest arrays, with valid and invalid arguments
Init ==
    \/ InitSearch
    \/ InitValid(SortScripts, ShortArrays, ErrnoValues)
    \/ InitBadArgs(SortOps)

Next == NextSearch \/ NextSort

Spec == Init /\ [][Next]_vars

\* every routine called twice by a caller that repeats its call
AgainScripts == {<<o, "again">> : o \in SearchOps \cup SortOps}

InitAgain == InitValid(AgainScripts, ShortArrays, ErrnoValues)

NextAgain == SearchSteps \/ NextSort \/ CallAgain

SpecAgain == InitAgain /\ [][NextAgain]_vars

-----------------------------------------------------------------------------
(* Properties. *)

\* non-decreasing under the comparator
Sorted(arr) ==
    \A x \in 1..(Len(arr) - 1) : Compare(arr[x], arr[x + 1]) <= 0

\* the same elements (ids tell equal keys apart)
IsPermutation(a, b) ==
    /\ Len(a) = Len(b)
    /\ {a[x] : x \in DOMAIN a} = {b[x] : x \in DOMAIN b}

\* the C range [lo, hi] of arr
Range(arr, lo, hi) == SubSeq(arr, lo + 1, hi + 1)

Done == pc = "done"

\* the call met no allocation failure and no callback error
NothingFailed == ~g.alloc_failed /\ g.cberrs = 0

\* the arguments pass the routine's argument check
ArgsValid ==
    IF op \in SortOps THEN ~SortArgsInvalid
    ELSE IF op = "predicate_search" THEN ~PredicateArgsInvalid
    ELSE ~SearchArgsInvalid

\* the arguments pass the argument check and the overflow guard
ArgsAccepted == ArgsValid /\ ~SizeOverflows

EqualsTarget(e) == Compare(e, arg.target) = 0

\* the predicate applied with the bound arguments read from their beginning
Satisfies(e) == Predicate(e, arg.pargs, 1)

\* what a search reports for the match sequence m
Reports(m) ==
    /\ found = m
    /\ found_size = Len(m)
    /\ ret = (IF m = <<>> THEN "NULL" ELSE "found")

\* C1: with a consistent comparator and no failed allocation, quicksort
\* returns 0 and leaves a permutation of the input that is non-decreasing
\* under the comparator; every sub-range that is not pushed because the pivot
\* landed on index 0 or size-1 is already non-decreasing.
C1_QuicksortSorts ==
    (op = "quicksort" /\ ArgsAccepted /\ NothingFailed) =>
        /\ Done => (ret = "0" /\ Sorted(array) /\ IsPermutation(array, array0))
        /\ \A r \in g.skipped : Sorted(Range(array, r[1], r[2]))

\* a quicksort that reordered at least three elements, left sub-ranges
\* unpushed and returned
C1_Witness ==
    /\ op = "quicksort" /\ Done /\ NothingFailed /\ ret = "0"
    /\ Len(array) >= 3 /\ array # array0
    /\ g.skipped # {}

\* C2: with a consistent comparator and no failed allocation, selection_sort
\* and insertion_sort return 0 and leave a permutation of the input that is
\* non-decreasing under the comparator.
C2_SimpleSortsSort ==
    (op \in {"selection_sort", "insertion_sort"} /\ Done /\ ArgsAccepted
        /\ NothingFailed) =>
        (ret = "0" /\ Sorted(array) /\ IsPermutation(array, array0))

\* a selection sort that reordered at least three elements and returned
C2_Witness ==
    /\ op = "selection_sort" /\ Done /\ NothingFailed /\ ret = "0"
    /\ Len(array) >= 3 /\ ~Sorted(array0) /\ g.nswap >= 2

\* C3: with no failed allocation and no comparator error, linear_search
\* returns exactly the elements that compare equal to the target, in array
\* order, and stores their number (NULL and 0 when there are none).
C3_LinearSearchFinds ==
    (op = "linear_search" /\ Done /\ ArgsAccepted /\ NothingFailed) =>
        Reports(SelectSeq(array, EqualsTarget))

\* a linear search that grew its buffer and skipped a non-matching element
C3_Witness ==
    /\ op = "linear_search" /\ Done /\ NothingFailed
    /\ found_size > InitialFoundCapacity
    /\ found_size < arg.size

\* C4: on an array sorted under the comparator, binary_search reports the
\* same element sequence, count and pointer as linear_search did on the same
\* input: the maximal contiguous run of elements equal to the target.
C4_BinaryMatchesLinear ==
    (op = "binary_search" /\ Done /\ hist # <<>> /\ ArgsAccepted
        /\ NothingFailed /\ Sorted(array)) =>
        /\ hist[1].op = "linear_search"
        /\ found = hist[1].found
        /\ found_size = hist[1].found_size
        /\ ret = hist[1].ret
        /\ found_size > 0 =>
            /\ found = Range(array, loc.leftmost_idx, loc.rightmost_idx)
            /\ \A x \in 0..(arg.size - 1) :
                EqualsTarget(At(x)) <=>
                    (loc.leftmost_idx <= x /\ x <= loc.rightmost_idx)

\* a binary search after a linear search that found a run of several equal
\* elements strictly inside a sorted array
C4_Witness ==
    /\ op = "binary_search" /\ Done /\ hist # <<>> /\ NothingFailed
    /\ Sorted(array)
    /\ found_size >= 2
    /\ loc.leftmost_idx > 0 /\ loc.rightmost_idx < arg.size - 1

\* C5: with no failed allocation and no predicate error, predicate_search
\* returns exactly the elements that satisfy the predicate with its bound
\* arguments, in array order, and stores their number; every invocation of
\* the predicate gets the bound arguments from their beginning.
C5_PredicateSearchFilters ==
    (op = "predicate_search") =>
        /\ g.seen_args \subseteq {1}
        /\ (Done /\ ArgsAccepted /\ NothingFailed) =>
                Reports(SelectSeq(array, Satisfies))

\* a predicate search whose predicate consumed its arguments on several
\* invocations, with matches and non-matches
C5_Witness ==
    /\ op = "predicate_search" /\ Done /\ NothingFailed
    /\ arg.consume > 0 /\ g.ncmp >= 3
    /\ found_size >= 2 /\ found_size < arg.size

\* the failure value of the routine: NULL with the undefined count for a
\* search, -1 for a sort
ReturnsFailure ==
    IF op \in SortOps
    THEN ret = "-1"
    ELSE ret = "NULL" /\ found_size = SIZE_T_MINUS_1

\* the call invoked no callback, allocated nothing and touched no element
DidNothing ==
    /\ g.ncmp = 0
    /\ g.nalloc = 0
    /\ g.touched = {}
    /\ array = array0
    /\ found = <<>>

\* C6: each of the six entry points, called with valid pointers, type_size > 0
\* and size > SIZE_MAX / type_size, sets errno to EOVERFLOW and returns its
\* failure value without invoking the callback, allocating or touching an
\* array element.
C6_OverflowGuard ==
    (Done /\ ArgsValid /\ arg.type_size > 0
        /\ arg.size > SIZE_MAX \div arg.type_size) =>
        /\ errno = "EOVERFLOW"
        /\ ReturnsFailure
        /\ DidNothing

\* a sort and a search refused for overflow
C6_Witness ==
    /\ Done /\ ArgsValid /\ errno = "EOVERFLOW" /\ errno0 # "EOVERFLOW"
    /\ arg.size > SIZE_MAX \div arg.type_size
    /\ arg.size * arg.type_size > SIZE_MAX
    /\ MulSz(arg.size, arg.type_size) <= SIZE_MAX \div 2
    /\ op = "quicksort"

\* C7: each of the six entry points, called with a NULL pointer argument or
\* type_size == 0, sets errno to EINVAL and returns failure before the
\* overflow division, any callback invocation and any array access; a search
\* stores (size_t)-1 through found_size exactly when found_size is not NULL.
C7_InvalidArguments ==
    (Done /\ ~ArgsValid) =>
        /\ errno = "EINVAL"
        /\ ret = (IF op \in SortOps THEN "-1" ELSE "NULL")
        /\ found_size = (IF op \in SearchOps /\ ~arg.found_size_null
                         THEN SIZE_T_MINUS_1 ELSE FoundSizeBefore)
        /\ DidNothing

\* a search refused for a NULL found_size together with a zero type_size and
\* a size that no type_size could hold
C7_Witness ==
    /\ Done /\ op = "predicate_search" /\ errno = "EINVAL"
    /\ arg.found_size_null /\ arg.type_size = 0 /\ arg.size = SIZE_MAX
    /\ found_size = FoundSizeBefore

\* C8: in linear_search and predicate_search every failing return gives NULL
\* with the undefined count (size_t)-1 and the match buffer freed, and every
\* success with no match gives NULL with count 0; a failure never reports 0
\* and a success never reports (size_t)-1.
C8_SearchFailureIsDistinct ==
    (op \in {"linear_search", "predicate_search"} /\ Done) =>
        /\ (g.path # "ok" /\ ~arg.found_size_null) =>
            /\ ret = "NULL"
            /\ found_size = SIZE_T_MINUS_1
            /\ heap.found \in {"none", "freed"}
        /\ (g.path # "ok" /\ arg.found_size_null) =>
            /\ ret = "NULL"
            /\ heap.found = "none"
        /\ (g.path = "ok" /\ found = <<>>) =>
            /\ ret = "NULL"
            /\ found_size = 0
            /\ heap.found = "freed"
        /\ g.path = "ok" => found_size # SIZE_T_MINUS_1
        /\ g.path # "ok" => found_size # 0

\* a linear search that fails when its full buffer cannot grow
C8_Witness ==
    /\ op = "linear_search" /\ Done /\ g.path = "enomem"
    /\ Len(found) = InitialFoundCapacity
    /\ heap.found = "freed" /\ found_size = SIZE_T_MINUS_1

\* C9: every failing return of binary_search stores the undefined count
\* (size_t)-1 through found_size.
C9_BinaryFailureSetsSentinel ==
    (op = "binary_search" /\ Done /\ g.path # "ok" /\ ~arg.found_size_null) =>
        found_size = SIZE_T_MINUS_1

\* C10: binary_search on an empty array, or on a sorted array with no element
\* equal to the target, returns NULL with count 0, leaves errno as it was and
\* reads no index outside [0, size-1].
C10_BinaryNoMatch ==
    (op = "binary_search" /\ Done /\ ArgsAccepted /\ g.cberrs = 0
        /\ Sorted(array) /\ SelectSeq(array, EqualsTarget) = <<>>) =>
        /\ ret = "NULL"
        /\ found_size = 0
        /\ errno = errno0
        /\ g.touched \subseteq 0..(arg.size - 1)
        /\ g.path = "ok"

\* a binary search for a target below every element of a sorted array of
\* several elements, which ends at index 0
C10_Witness ==
    /\ op = "binary_search" /\ Done /\ g.cberrs = 0 /\ Sorted(array)
    /\ arg.size >= 3 /\ loc.middle = 0 /\ g.ncmp >= 2
    /\ \A x \in DOMAIN array : Compare(array[x], arg.target) > 0
    /\ ret = "NULL" /\ found_size = 0

-----------------------------------------------------------------------------
(* Callback errors. *)

\* some callback invocation of the call changed errno
ErrnoWasChanged == g.changed # <<>>

\* nothing was compared, swapped or copied since errno first changed
StoppedAtChange ==
    /\ g.ncmp = g.changed[1].ncmp
    /\ g.nswap = g.changed[1].nswap
    /\ array = g.changed[1].array
    /\ found = g.changed[1].found

\* C11: once a comparator invocation of quicksort has changed errno, whatever
\* it returned, quicksort invokes the comparator no more, swaps no more, frees
\* the range stack and returns -1.
C11_QuicksortAbortsOnError ==
    (op = "quicksort" /\ ErrnoWasChanged) =>
        /\ StoppedAtChange
        /\ Done /\ ret = "-1"
        /\ heap.range_stack = "freed"

\* C12: once a callback invocation of a search, of selection_sort or of
\* insertion_sort has changed errno, the routine invokes the callback no
\* more, copies and swaps no more element and returns its failure value.
C12_OthersAbortOnError ==
    (op # "quicksort" /\ ErrnoWasChanged) =>
        /\ StoppedAtChange
        /\ Done /\ g.path = "callback"
        /\ ret = (IF op \in SortOps THEN "-1" ELSE "NULL")

\* an insertion sort stopped by its comparator after it had moved elements
C12_Witness ==
    /\ op = "insertion_sort" /\ Done /\ ErrnoWasChanged
    /\ g.nswap >= 1 /\ array # array0 /\ ret = "-1"

\* what the caller can see of a call r besides the error slot
Outcome(r) ==
    [ret |-> r.ret, found_size |-> r.found_size,
     found |-> IF r.ret = "found" THEN r.found ELSE <<>>,
     array |-> r.array]

\* C13: a call repeated with the same arguments and the same callback
\* behaviour, from another starting value of errno, has the same outcome:
\* returned buffer, count, return code and final array.
C13_OutcomeIgnoresErrno ==
    (Replaying /\ Done /\ ~g.alloc_failed) =>
        Outcome(Result) = Outcome(hist[Len(hist)])

-----------------------------------------------------------------------------
(* Heap blocks. *)

\* the blocks of the call: match buffer, range stack, last swap temporary
Blocks == <<heap.found, heap.range_stack, g.tmp>>

\* the block was never allocated, or was freed once
Released(status) == status \in {"none", "freed"}

\* C14: when a search or quicksort returns, after any allocation failures
\* and callback errors, the range stack and the swap temporaries it allocated
\* are freed once, and so is the match buffer unless it is the buffer
\* returned by a successful search with a match; no block is freed twice,
\* and a freed block is not touched again, the routine being at its return.
C14_BlocksFreedOnce ==
    (op \in SearchOps \cup {"quicksort"}) =>
        /\ \A x \in DOMAIN Blocks : Blocks[x] # "freed_twice"
        /\ (heap.found = "freed" \/ heap.range_stack = "freed") => Done
        /\ Done =>
            /\ Released(heap.range_stack)
            /\ Released(g.tmp)
            /\ IF ret = "found"
               THEN heap.found = "live" /\ g.path = "ok" /\ found # <<>>
               ELSE Released(heap.found)

\* a quicksort that gives up when a swap cannot allocate its temporary,
\* after an earlier swap that could
C14_Witness ==
    /\ op = "quicksort" /\ Done /\ g.path = "swap"
    /\ g.tmp = "freed" /\ heap.range_stack = "freed" /\ g.nalloc >= 3

-----------------------------------------------------------------------------
(* Aborted sorts. *)

\* C15: whenever a sort returns, with 0 or with -1 after an allocation
\* failure or a comparator error at any step, the array holds a permutation
\* of the elements it held at entry (and only elements of the array were
\* exchanged).
C15_SortKeepsElements ==
    (op \in SortOps /\ Done) =>
        /\ IsPermutation(array, array0)
        /\ g.touched \subseteq 0..(Len(array0) - 1)

\* a quicksort that gave up on a failed swap with the array partly reordered
C15_Witness ==
    /\ op = "quicksort" /\ Done /\ ret = "-1" /\ g.path = "swap"
    /\ array # array0 /\ ~Sorted(array) /\ g.nswap >= 2

-----------------------------------------------------------------------------
(* Sorting a sorted array. *)

\* every position holds an element that compares equal to the one of b
SameKeys(a, b) ==
    /\ Len(a) = Len(b)
    /\ \A x \in DOMAIN a : Compare(a[x], b[x]) = 0

\* C16: a sort applied to an array that is already non-decreasing returns 0
\* and leaves at every position an element that compares equal to the
\* element that was there before.
C16_SortedStaysSorted ==
    (op \in SortOps /\ Done /\ ArgsAccepted /\ NothingFailed
        /\ Sorted(array0)) =>
        /\ ret = "0"
        /\ SameKeys(array, array0)

\* a quicksort of a sorted array with equal and distinct keys that moved
\* elements
C16_Witness ==
    /\ op = "quicksort" /\ Done /\ NothingFailed /\ Sorted(array0)
    /\ Len(array0) >= 3 /\ array # array0 /\ ret = "0"
    /\ Compare(array0[1], array0[Len(array0)]) < 0

-----------------------------------------------------------------------------
(* swap *)

\* C17: swap is all-or-nothing. When its temporary cannot be allocated it
\* sets errno to ENOMEM, returns -1 and leaves both elements unchanged; when
\* a and b are the same address it returns 0 without allocating and leaves
\* the element unchanged; otherwise it returns 0 with the two elements
\* exchanged (and the rest of the array and errno as they were).
C17_SwapAllOrNothing ==
    \A x \in DOMAIN g.last_swap :
        LET s == g.last_swap[x]
            w == s.w IN
        IF s.a = s.b
        THEN w.rc = 0 /\ ~w.tried /\ w.array = s.before /\ w.errno = s.errno
        ELSE IF ~w.ok
        THEN w.rc = -1 /\ w.errno = "ENOMEM" /\ w.array = s.before
        ELSE /\ w.rc = 0 /\ w.errno = s.errno
             /\ Len(w.array) = Len(s.before)
             /\ w.array[s.a + 1] = s.before[s.b + 1]
             /\ w.array[s.b + 1] = s.before[s.a + 1]
             /\ \A y \in DOMAIN s.before :
                    y \notin {s.a + 1, s.b + 1} => w.array[y] = s.before[y]

\* a selection sort whose swap of two different elements could not allocate
\* its temporary, after an earlier swap
C17_Witness ==
    /\ op = "selection_sort" /\ Done /\ ret = "-1" /\ errno = "ENOMEM"
    /\ g.last_swap # <<>> /\ g.last_swap[1].a # g.last_swap[1].b
    /\ ~g.last_swap[1].w.ok /\ array = g.last_swap[1].before
    /\ g.nswap >= 2

-----------------------------------------------------------------------------
(* The partition of quicksort. *)

\* C18: for a popped range with low < high, the element swapped into
\* position high as pivot is a median of the elements sampled at low, mid and
\* high: of the other two samples one compares less than or equal to it and
\* one greater than or equal to it; the three positions hold the same
\* elements as before the selection.
C18_PivotIsMedian ==
    (op = "quicksort" /\ g.cberrs = 0) =>
        \A x \in DOMAIN g.selected :
            LET s == g.selected[x]
                m == IF s.median = s.high THEN 3
                     ELSE IF s.median = s.mid THEN 2 ELSE 1
                pivot == s.after[3]
                others == {1, 2, 3} \ {m} IN
            s.rc = 0 =>
                /\ s.mid = s.low + ((s.high - s.low) \div 2)
                /\ pivot = s.before[m]
                /\ \E y \in others, z \in others :
                    /\ y # z
                    /\ Compare(s.before[y], pivot) <= 0
                    /\ Compare(s.before[z], pivot) >= 0
                /\ {s.after[y] : y \in 1..3} = {s.before[y] : y \in 1..3}

\* a range of three or more elements whose samples have three different
\* keys, with the median found at low and swapped to high
C18_Witness ==
    /\ op = "quicksort" /\ g.cberrs = 0 /\ g.selected # <<>>
    /\ g.selected[1].rc = 0
    /\ g.selected[1].median = g.selected[1].low
    /\ g.selected[1].low < g.selected[1].mid
    /\ Compare(g.selected[1].before[2], g.selected[1].before[1]) < 0
    /\ Compare(g.selected[1].before[1], g.selected[1].before[3]) < 0
    /\ g.selected[1].after[3] = g.selected[1].before[1]

\* C19: after the pivot of a popped range [low, high] has been swapped to
\* pivot_pos, low <= pivot_pos <= high, every element of [low, pivot_pos)
\* compares less than or equal to the pivot and every element of
\* (pivot_pos, high] greater than or equal to it; index pivot_pos is not
\* written again for the rest of the sort.
C19_PivotInPlace ==
    (op = "quicksort" /\ g.cberrs = 0) =>
        /\ \A x \in DOMAIN g.last_partition :
            LET p == g.last_partition[x]
                pivot == p.array[p.pivot_pos + 1] IN
            /\ p.low <= p.pivot_pos /\ p.pivot_pos <= p.high
            /\ \A y \in p.low..(p.pivot_pos - 1) :
                    Compare(p.array[y + 1], pivot) <= 0
            /\ \A y \in (p.pivot_pos + 1)..p.high :
                    Compare(p.array[y + 1], pivot) >= 0
        /\ \A q \in g.placed : array[q[1] + 1] = q[2]

\* a finished quicksort that placed two pivots, one of them inside the array
\* between a smaller and a greater element
C19_Witness ==
    /\ op = "quicksort" /\ Done /\ ret = "0" /\ g.cberrs = 0
    /\ Cardinality(g.placed) >= 2
    /\ \E q \in g.placed :
        /\ q[1] > 0 /\ q[1] < Len(array) - 1
        /\ Compare(array[q[1]], q[2]) < 0
        /\ Compare(array[q[1] + 2], q[2]) > 0
    /\ array # array0

\* what the partition p added on top of the range stack
Added(p) == SubSeq(p.pushed, Len(p.stack) + 1, Len(p.pushed))

\* the partition p pushed its two sub-ranges, the one with fewer elements
\* last, on top of the stack
PushedBothSmallerLast(p) ==
    LET added == Added(p) IN
    /\ Len(added) = 4
    /\ {<<added[1], added[2]>>, <<added[3], added[4]>>}
            = {<<p.low, p.pivot_pos - 1>>, <<p.pivot_pos + 1, p.high>>}
    /\ added[4] - added[3] <= added[2] - added[1]
    /\ p.pushed[Len(p.pushed)] = added[4]

\* C20 as stated: after partitioning any popped range with low < high,
\* quicksort pushes both sub-ranges, the one with fewer elements last.
C20_PushesBothSmallerLast ==
    (op = "quicksort" /\ g.cberrs = 0) =>
        \A x \in DOMAIN g.last_partition :
            PushedBothSmallerLast(g.last_partition[x])

\* C20: after partitioning a popped range with low < high, quicksort pushes
\* both sub-ranges, the one with fewer elements last, unless the pivot landed
\* on index 0 or on index size-1 of the array; then it pushes neither, and
\* each of the two is already non-decreasing.
C20_PushesUnlessAtEnds ==
    (op = "quicksort" /\ g.cberrs = 0) =>
        \A x \in DOMAIN g.last_partition :
            LET p == g.last_partition[x] IN
            IF p.pivot_pos # 0 /\ p.pivot_pos # arg.size - 1
            THEN PushedBothSmallerLast(p)
            ELSE /\ Added(p) = <<>>
                 /\ Sorted(Range(p.array, p.low, p.pivot_pos - 1))
                 /\ Sorted(Range(p.array, p.pivot_pos + 1, p.high))

\* a partition that left more elements before the pivot than after it and
\* pushed the sub-range after the pivot last
C20_Witness ==
    /\ op = "quicksort" /\ g.cberrs = 0 /\ g.last_partition # <<>>
    /\ g.last_partition[1].pivot_pos - g.last_partition[1].low
            > g.last_partition[1].high - g.last_partition[1].pivot_pos
    /\ g.last_partition[1].high > g.last_partition[1].pivot_pos
    /\ Added(g.last_partition[1])
            = <<g.last_partition[1].low, g.last_partition[1].pivot_pos - 1,
                g.last_partition[1].pivot_pos + 1, g.last_partition[1].high>>

-----------------------------------------------------------------------------
(* The depth of the range stack. *)

RECURSIVE Log2Floor(_)
\* floor(log2(n)) for n >= 1
Log2Floor(n) == IF n <= 1 THEN 0 ELSE 1 + Log2Floor(n \div 2)

\* the number of (low, high) frames on the range stack
Frames == range_stack_top \div 2

-----------------------------------------------------------------------------
(* The match buffer. *)

IsGrowth(r) == r.why = "grow"

\* the growth reallocations of the call, in order
Growths == SelectSeq(g.requests, IsGrowth)

\* C22: in linear_search and predicate_search the match buffer has capacity
\* 16 at creation, the capacity changes only by doubling, a reallocation for
\* growth happens only when the match count equals the capacity, and every
\* element is copied to a slot below the capacity.
C22_CapacityDoubles ==
    (op \in {"linear_search", "predicate_search"} /\ g.requests # <<>>) =>
        /\ g.requests[1].why = "create"
        /\ g.requests[1].elements = InitialFoundCapacity
        /\ \A x \in DOMAIN g.requests :
            IsGrowth(g.requests[x]) =>
                /\ g.requests[x].elements = 2 * g.requests[x].capacity
                /\ g.requests[x].count = g.requests[x].capacity
        /\ found_capacity = InitialFoundCapacity * (2 ^ Len(Growths))
        /\ Len(found) <= found_capacity

\* a linear search that doubled its buffer twice and returned its matches
C22_Witness ==
    /\ op = "linear_search" /\ Done /\ ret = "found"
    /\ Len(Growths) = 2 /\ found_capacity = 4 * InitialFoundCapacity
    /\ Len(found) > 2 * InitialFoundCapacity

-----------------------------------------------------------------------------
(* The swaps of insertion_sort. *)

\* C23: insertion_sort swaps an element with its left neighbour only when the
\* element compares strictly less than that neighbour, so elements that
\* compare equal are never swapped and an array that is already
\* non-decreasing is returned exactly as it was.
C23_InsertionSwapsOnlyLess ==
    (op = "insertion_sort" /\ g.cberrs = 0) =>
        /\ \A x \in DOMAIN g.last_swap :
            LET s == g.last_swap[x] IN
            s.w.rc = 0 => Compare(s.before[s.a + 1], s.before[s.b + 1]) < 0
        /\ (Done /\ NothingFailed /\ Sorted(array0)) => array = array0

-----------------------------------------------------------------------------
(* The comparisons of binary_search. *)

\* C24: on a sorted array of n >= 1 elements binary_search invokes the
\* comparator at most 3 * (floor(log2(n)) + 1) times.
C24_BinaryComparisonsLogarithmic ==
    (op = "binary_search" /\ ArgsAccepted /\ arg.size >= 1
        /\ Sorted(array0)) =>
        g.ncmp <= 3 * (Log2Floor(arg.size) + 1)

\* a binary search of a long sorted array that found the target and needed
\* more than 2 * floor(log2(n)) comparisons in its three loops
C24_Witness ==
    /\ op = "binary_search" /\ Done /\ ret = "found" /\ Sorted(array0)
    /\ arg.size > 2 * InitialFoundCapacity
    /\ g.ncmp > 2 * Log2Floor(arg.size)

-----------------------------------------------------------------------------
(* The byte counts of the match buffer. *)

IsSizing(r) == r.why \in {"create", "grow"}

\* C25: in linear_search and predicate_search, once the size * type_size
\* guard has passed, every byte count found_capacity * type_size computed
\* for the match buffer, at its creation and after each doubling, is the
\* mathematical product of the two.
C25_BufferBytesNeverWrap ==
    (op \in {"linear_search", "predicate_search"} /\ ArgsAccepted) =>
        \A x \in DOMAIN g.requests :
            IsSizing(g.requests[x]) =>
                g.requests[x].bytes = g.requests[x].elements * arg.type_size

-----------------------------------------------------------------------------
(* binary_search on any array. *)

\* binary_search alone, on every array of up to MaxLen elements, sorted or
\* not, where each of its steps is eventually taken
InitBinary == InitValid({<<"binary_search">>}, ShortArrays, ErrnoValues)

NextBinary ==
    \/ BinaryEntry \/ BinaryMain \/ BinaryLeftmost \/ BinaryRightmost
    \/ BinaryCopy

SpecBinary == InitBinary /\ [][NextBinary]_vars /\ WF_vars(NextBinary)

LastIndex == arg.size - 1

\* the indices read are in the array, the bounds of the three loops have not
\* wrapped, and the run found lies around found_idx and in the array
BinaryInBounds ==
    (op = "binary_search" /\ ArgsAccepted) =>
        /\ g.touched \subseteq 0..LastIndex
        /\ pc = "main" =>
            /\ loc.left <= loc.right + 1
            /\ loc.right <= LastIndex
        /\ pc \in {"leftmost", "rightmost"} =>
            /\ loc.low <= loc.high
            /\ loc.high <= LastIndex
        /\ (pc = "copy" \/ (Done /\ ret = "found")) =>
            /\ loc.leftmost_idx <= loc.found_idx
            /\ loc.found_idx <= loc.rightmost_idx
            /\ loc.rightmost_idx <= LastIndex
            /\ found_size <= arg.size

\* C26: for every array, sorted or not, and every sequence of comparator
\* results, binary_search returns, reads only elements at indices 0..size-1,
\* never wraps an index subtraction, and on a match has
\* leftmost_idx <= found_idx <= rightmost_idx <= size - 1.
C26_BinarySafeOnAnyArray == []BinaryInBounds /\ <>Done

\* a match on an array that is not sorted, with elements on both sides of
\* found_idx in the run returned
C26_Witness ==
    /\ op = "binary_search" /\ Done /\ ret = "found" /\ ~Sorted(array0)
    /\ loc.leftmost_idx < loc.found_idx /\ loc.found_idx < loc.rightmost_idx
    /\ \E x \in DOMAIN found : Compare(found[x], arg.target) # 0

-----------------------------------------------------------------------------
(* The shrink of the match buffer. *)

\* the last reallocation asked was the final shrink, and it failed
TrimFailed ==
    /\ g.requests # <<>>
    /\ g.requests[Len(g.requests)].why = "trim"
    /\ ~g.requests[Len(g.requests)].ok

\* the elements the search is to report, in array order
Matches ==
    IF op = "predicate_search" THEN SelectSeq(array, Satisfies)
    ELSE SelectSeq(array, EqualsTarget)

\* C28: when the final shrinking realloc() of linear_search or
\* predicate_search fails after at least one match, the call succeeds: it
\* returns the buffer it had, of the unshrunk capacity, still allocated, with
\* all matches in order and *found_size equal to their number.
C28_FailedShrinkStillSucceeds ==
    (op \in {"linear_search", "predicate_search"} /\ Done /\ TrimFailed) =>
        /\ ret = "found"
        /\ heap.found = "live"
        /\ found_size >= 1 /\ found_size = Len(found)
        /\ found_capacity = InitialFoundCapacity * (2 ^ Len(Growths))
        /\ g.cberrs = 0 => found = Matches

\* a linear search that grew its buffer, whose shrink failed
C28_Witness ==
    /\ op = "linear_search" /\ Done /\ TrimFailed /\ g.cberrs = 0
    /\ Len(Growths) >= 1 /\ found_size < found_capacity
    /\ found_size < arg.size

-----------------------------------------------------------------------------
(* quicksort with a comparator that defines no order. *)

\* arrays of distinguishable elements; their content has no part in the
\* results of the comparator
AnyOrderArrays == {[i \in 1..n |-> Elem(1, i)] : n \in 0..MaxSortLen}

InitAnyOrder ==
    \E A \in AnyOrderArrays : \E a \in ValidArgs("quicksort", A) :
        InitCall(<<"quicksort">>, A, [a EXCEPT !.order = "none"], "0")

NextQuick ==
    \/ QuickEntry \/ QuickPop
    \/ QuickCompareLowMid \/ QuickCompareLowHigh \/ QuickCompareMidHigh
    \/ QuickPivot \/ QuickLeftScan \/ QuickRightScan \/ QuickSwap
    \/ QuickPlace

\* quicksort alone, every comparator result possible at every invocation,
\* where each of its steps is eventually taken
SpecAnyOrder == InitAnyOrder /\ [][NextQuick]_vars /\ WF_vars(NextQuick)

\* the number of elements of the C range [lo, hi]
RangeLength(lo, hi) == IF hi >= lo THEN hi - lo + 1 ELSE 0

\* the elements about to be compared or swapped are in the popped range
ScansInRange ==
    /\ pc \in {"cmp_low_mid", "cmp_low_high", "cmp_mid_high", "pivot"} =>
        /\ 0 <= loc.low /\ loc.low <= loc.mid
        /\ loc.mid <= loc.high /\ loc.high <= LastIndex
    /\ pc = "lscan" => loc.low <= loc.left /\ loc.left <= loc.right
    /\ pc \in {"lscan", "rscan", "pswap"} =>
        /\ loc.low <= loc.left /\ loc.left <= loc.high
        /\ loc.low - 1 <= loc.right /\ loc.right < loc.high
    /\ pc = "place" => loc.low <= loc.left /\ loc.left <= loc.high

\* the frames pushed by the last partition are shorter than its range and
\* every bound on the stack is an index of the array
FramesShrink ==
    /\ \A x \in DOMAIN g.last_partition :
        LET p == g.last_partition[x]
            added == Added(p) IN
        /\ Len(added) \in {0, 4}
        /\ Len(added) = 4 =>
            /\ RangeLength(added[1], added[2]) < RangeLength(p.low, p.high)
            /\ RangeLength(added[3], added[4]) < RangeLength(p.low, p.high)
    /\ \A x \in DOMAIN range_stack :
        0 <= range_stack[x] /\ range_stack[x] <= LastIndex

\* the range stack holds no more than the size_t slots allocated for it
StackInCapacity ==
    heap.range_stack = "live" => range_stack_top <= 2 * range_stack_capacity

QuickInBounds ==
    (op = "quicksort" /\ ArgsAccepted) =>
        /\ ScansInRange
        /\ FramesShrink
        /\ StackInCapacity
        /\ g.touched \subseteq 0..LastIndex

\* C27: whatever the comparator returns at each invocation, quicksort
\* returns; every frame it pushes is shorter than the range partitioned,
\* every comparison and swap stays inside the popped range, no bound on the
\* stack comes from subtracting from index 0, and the stack is written only
\* below its allocated capacity.
C27_QuicksortSafeForAnyOrder == []QuickInBounds /\ <>Done

\* a quicksort under a comparator that defines no order, which returned 0
\* after a last partition whose pivot landed on the low end of a range that
\* does not start the array, so that one pushed frame was [low, low - 1]
C27_Witness ==
    /\ op = "quicksort" /\ arg.order = "none" /\ Done /\ ret = "0"
    /\ arg.size >= 4 /\ g.ncmp >= 6
    /\ g.last_partition # <<>> /\ g.last_partition[1].low > 0
    /\ g.last_partition[1].pivot_pos = g.last_partition[1].low

-----------------------------------------------------------------------------
(* The earlier binary_search (Course work/src/algorithms.c). *)

EarlierOps == {"earlier_binary_search", "earlier_quicksort"}

\* a read outside the array is undefined: whatever the call reports after it
UndefinedReturns == {"NULL", "found", "crash"}

UndefinedCounts == {0, 1, SIZE_T_MINUS_1}

\* the call read the element at index idx, outside the array
ReadOutside(idx) ==
    /\ ret' \in UndefinedReturns
    /\ found_size' \in UndefinedCounts
    /\ pc' = "done"
    /\ g' = [Touched(g, {idx}) EXCEPT !.path = "undefined"]

EarlierBinaryEntry ==
    /\ op = "earlier_binary_search" /\ pc = "entry"
    /\ UNCHANGED <<inputs, array, range_stack, range_stack_capacity, found,
                   found_capacity, heap>>
    /\ IF SearchArgsInvalid
       THEN /\ errno' = "EINVAL"
            /\ found_size' = MarkUndefined
            /\ Return("NULL", "einval", g)
            /\ UNCHANGED loc
       ELSE IF SizeOverflows
       THEN /\ errno' = "EOVERFLOW"
            /\ found_size' = SIZE_T_MINUS_1
            /\ Return("NULL", "eoverflow", g)
            /\ UNCHANGED loc
       ELSE IF arg.size = 0
       THEN /\ found_size' = SIZE_T_MINUS_1
            /\ Return("NULL", "ok", g)
            /\ UNCHANGED <<errno, loc>>
       ELSE /\ found_size' = SIZE_T_MINUS_1
            /\ loc' = [loc EXCEPT !.left = 0, !.right = SubSz(arg.size, 1),
                                  !.found_idx = SIZE_T_MINUS_1]
            /\ pc' = "main"
            /\ UNCHANGED <<errno, ret, g>>

\* one iteration of while (left <= right)
EarlierBinaryMain ==
    /\ op = "earlier_binary_search" /\ pc = "main"
    /\ UNCHANGED <<inputs, array, range_stack, range_stack_capacity, found,
                   found_capacity, heap>>
    /\ IF loc.left <= loc.right
       THEN LET middle == Middle(loc.left, loc.right) IN
            IF ~InBounds(middle)
            THEN /\ ReadOutside(middle)
                 /\ loc' = [loc EXCEPT !.middle = middle]
                 /\ UNCHANGED errno
            ELSE \E o \in CompareOutcomes(At(middle), arg.target) :
                 LET h == Touched(Called(o), {middle})
                     l == [loc EXCEPT !.middle = middle] IN
                 /\ errno' = ErrnoAfter(o)
                 /\ g' = h
                 /\ UNCHANGED <<found_size, ret>>
                 /\ IF o.res < 0
                    THEN /\ loc' = [l EXCEPT !.left = middle + 1]
                         /\ UNCHANGED pc
                    ELSE IF o.res > 0
                    THEN /\ loc' = [l EXCEPT !.right = SubSz(middle, 1)]
                         /\ UNCHANGED pc
                    ELSE /\ loc' = [l EXCEPT !.found_idx = middle,
                                             !.leftmost_idx = middle]
                         /\ pc' = "leftmost"
       ELSE /\ found_size' = 0
            /\ Return("NULL", "ok", g)
            /\ UNCHANGED <<errno, loc>>

\* one iteration of while (leftmost_idx > 0)
EarlierBinaryLeftmost ==
    /\ op = "earlier_binary_search" /\ pc = "leftmost"
    /\ UNCHANGED <<inputs, array, range_stack, range_stack_capacity, found,
                   found_capacity, heap, found_size, ret>>
    /\ IF loc.leftmost_idx > 0
       THEN \E o \in CompareOutcomes(At(loc.leftmost_idx - 1), arg.target) :
            /\ errno' = ErrnoAfter(o)
            /\ g' = Touched(Called(o), {loc.leftmost_idx - 1})
            /\ IF o.res # 0
               THEN /\ loc' = [loc EXCEPT !.rightmost_idx = loc.found_idx]
                    /\ pc' = "rightmost"
               ELSE /\ loc' = [loc EXCEPT !.leftmost_idx = @ - 1]
                    /\ UNCHANGED pc
       ELSE /\ loc' = [loc EXCEPT !.rightmost_idx = loc.found_idx]
            /\ pc' = "rightmost"
            /\ UNCHANGED <<errno, g>>

\* one iteration of while (rightmost_idx < size - 1)
EarlierBinaryRightmost ==
    /\ op = "earlier_binary_search" /\ pc = "rightmost"
    /\ UNCHANGED <<inputs, array, range_stack, range_stack_capacity, found,
                   found_capacity, heap, found_size, ret>>
    /\ IF loc.rightmost_idx < SubSz(arg.size, 1)
       THEN \E o \in CompareOutcomes(At(loc.rightmost_idx + 1), arg.target) :
            /\ errno' = ErrnoAfter(o)
            /\ g' = Touched(Called(o), {loc.rightmost_idx + 1})
            /\ IF o.res # 0
               THEN /\ pc' = "copy"
                    /\ UNCHANGED loc
               ELSE /\ loc' = [loc EXCEPT !.rightmost_idx = @ + 1]
                    /\ UNCHANGED pc
       ELSE /\ pc' = "copy"
            /\ UNCHANGED <<errno, loc, g>>

\* calloc() the result and copy the run [leftmost_idx, rightmost_idx]
EarlierBinaryCopy ==
    /\ op = "earlier_binary_search" /\ pc = "copy"
    /\ UNCHANGED <<inputs, array, range_stack, range_stack_capacity, loc>>
    /\ LET n == RunLength(loc.leftmost_idx, loc.rightmost_idx) IN
       \E ok \in AllocOutcomes(MulSz(n, arg.type_size)) :
       IF ok
       THEN /\ heap' = [heap EXCEPT !.found = "live"]
            /\ found_size' = n
            /\ found_capacity' = n
            /\ found' = [x \in 1..n |-> At(loc.leftmost_idx + x - 1)]
            /\ Return("found", "ok",
                      Touched(Allocated(g, TRUE),
                              loc.leftmost_idx..(loc.leftmost_idx + n - 1)))
            /\ UNCHANGED errno
       ELSE /\ errno' = "ENOMEM"
            /\ Return("NULL", "enomem", Allocated(g, FALSE))
            /\ UNCHANGED <<heap, found, found_capacity, found_size>>

NextEarlierBinary ==
    \/ EarlierBinaryEntry \/ EarlierBinaryMain \/ EarlierBinaryLeftmost
    \/ EarlierBinaryRightmost \/ EarlierBinaryCopy

-----------------------------------------------------------------------------
(* The earlier, recursive quicksort (Course work/src/algorithms.c).  Its
   pointers are byte offsets into the array, which is a sequence of bytes. *)

\* one more than the largest byte value of the model
ByteBase == MaxByte + 1

\* the arrays of n elements of ts bytes each
ByteArrays(n, ts) == [1..(n * ts) -> 1..MaxByte]

RECURSIVE ValueOf(_)
\* the integer stored in a sequence of bytes, low byte first
ValueOf(bytes) ==
    IF bytes = <<>> THEN 0
    ELSE Head(bytes) + ByteBase * ValueOf(Tail(bytes))

\* the type_size bytes at byte offset p are inside the array
InBlock(p) == p >= 0 /\ p + arg.type_size <= Len(array)

\* the element the comparator reads at byte offset p of mem
ElementAt(mem, p) == Elem(ValueOf(SubSeq(mem, p + 1, p + arg.type_size)), 0)

\* the elements of mem at the offsets that are multiples of type_size
Elements(mem) ==
    [x \in 1..(Len(mem) \div arg.type_size) |->
        ElementAt(mem, (x - 1) * arg.type_size)]

\* memmove(dst, src, type_size) with the source bytes taken from from
Moved(mem, dst, from, src) ==
    [x \in DOMAIN mem |->
        IF x - 1 >= dst /\ x - 1 < dst + arg.type_size
        THEN from[x - dst + src] ELSE mem[x]]

\* swap(a, b, type_size): tmp <- a, a <- b, b <- tmp
SwappedBytes(mem, a, b) == Moved(Moved(mem, a, mem, b), b, mem, a)

\* right = array + (left_size + 1) * type_size
RightPartScaled(base, left_size, type_size) ==
    base + (left_size + 1) * type_size

\* right = (void *)((uintptr_t)array + left_size + type_size);
RightPart(base, left_size, type_size) == base + left_size + type_size

\* the call read or wrote outside the array: whatever it returns after it
EarlierQuickOutside ==
    /\ ret' \in {"0", "-1", "crash"}
    /\ pc' = "done"
    /\ g' = [g EXCEPT !.path = "undefined"]
    /\ UNCHANGED <<array, errno, loc>>

\* the call quicksort(array, size, ...) of the caller
EarlierQuickEntry ==
    /\ op = "earlier_quicksort" /\ pc = "entry"
    /\ UNCHANGED <<inputs, array, errno, found_size, found, found_capacity,
                   heap, range_stack, range_stack_capacity, ret, g>>
    /\ loc' = [loc EXCEPT !.base = 0, !.size = arg.size]
    /\ pc' = "call"

\* the start of a call, at any depth, on loc.size elements from loc.base;
\* when it returns 0 the next pending call of the recursion starts
EarlierQuickCall ==
    /\ op = "earlier_quicksort" /\ pc = "call"
    /\ UNCHANGED <<inputs, array, found_size, found, found_capacity, heap,
                   range_stack, range_stack_capacity>>
    /\ IF SortArgsInvalid
       THEN /\ errno' = "EINVAL"
            /\ Return("-1", "einval", g)
            /\ UNCHANGED loc
       ELSE IF loc.size > SIZE_MAX \div arg.type_size
       THEN /\ errno' = "EOVERFLOW"
            /\ Return("-1", "eoverflow", g)
            /\ UNCHANGED loc
       ELSE IF loc.size > 1
       THEN LET pivot == loc.base + (loc.size - 1) * arg.type_size IN
            /\ loc' = [loc EXCEPT !.pivot = pivot, !.left = loc.base,
                                  !.right = pivot - arg.type_size]
            /\ pc' = "lscan"
            /\ UNCHANGED <<errno, ret, g>>
       ELSE IF loc.pending = <<>>
       THEN /\ Return("0", "ok", g)
            /\ UNCHANGED <<errno, loc>>
       ELSE /\ loc' = [loc EXCEPT !.base = Head(loc.pending).array,
                                  !.size = Head(loc.pending).size,
                                  !.pending = Tail(@)]
            /\ UNCHANGED <<errno, ret, pc, g>>

\* one test of while (compare(left, pivot) < 0)
EarlierQuickLeftScan ==
    /\ op = "earlier_quicksort" /\ pc = "lscan"
    /\ UNCHANGED <<inputs, found_size, found, found_capacity, heap,
                   range_stack, range_stack_capacity>>
    /\ IF ~(InBlock(loc.left) /\ InBlock(loc.pivot))
       THEN EarlierQuickOutside
       ELSE \E o \in CompareOutcomes(ElementAt(array, loc.left),
                                     ElementAt(array, loc.pivot)) :
            /\ errno' = ErrnoAfter(o)
            /\ g' = Called(o)
            /\ UNCHANGED <<array, ret>>
            /\ IF o.res < 0
               THEN /\ loc' = [loc EXCEPT !.left = @ + arg.type_size]
                    /\ UNCHANGED pc
               ELSE /\ pc' = "rscan"
                    /\ UNCHANGED loc

\* one test of while (right >= array && compare(right, pivot) > 0)
EarlierQuickRightScan ==
    /\ op = "earlier_quicksort" /\ pc = "rscan"
    /\ UNCHANGED <<inputs, found_size, found, found_capacity, heap,
                   range_stack, range_stack_capacity>>
    /\ IF loc.right >= loc.base
       THEN IF ~(InBlock(loc.right) /\ InBlock(loc.pivot))
            THEN EarlierQuickOutside
            ELSE \E o \in CompareOutcomes(ElementAt(array, loc.right),
                                          ElementAt(array, loc.pivot)) :
                 /\ errno' = ErrnoAfter(o)
                 /\ g' = Called(o)
                 /\ UNCHANGED <<array, ret>>
                 /\ IF o.res > 0
                    THEN /\ loc' = [loc EXCEPT !.right = @ - arg.type_size]
                         /\ UNCHANGED pc
                    ELSE /\ pc' = "pswap"
                         /\ UNCHANGED loc
       ELSE /\ pc' = "pswap"
            /\ UNCHANGED <<array, errno, loc, ret, g>>

\* if (left <= right): swap, whose result is not tested, and step both
\* pointers; then the test of while (left <= right)
EarlierQuickSwap ==
    /\ op = "earlier_quicksort" /\ pc = "pswap"
    /\ UNCHANGED <<inputs, found_size, found, found_capacity, heap,
                   range_stack, range_stack_capacity>>
    /\ IF loc.left <= loc.right
       THEN IF ~(InBlock(loc.left) /\ InBlock(loc.right))
            THEN EarlierQuickOutside
            ELSE \E ok \in AllocOutcomes(arg.type_size) :
                 /\ array' = (IF ok
                              THEN SwappedBytes(array, loc.left, loc.right)
                              ELSE array)
                 /\ errno' = (IF ok THEN errno ELSE "ENOMEM")
                 /\ g' = Allocated(g, ok)
                 /\ loc' = [loc EXCEPT !.left = @ + arg.type_size,
                                       !.right = @ - arg.type_size]
                 /\ pc' = (IF loc.left + arg.type_size
                                <= loc.right - arg.type_size
                           THEN "lscan" ELSE "place")
                 /\ UNCHANGED ret
       ELSE /\ pc' = "place"
            /\ UNCHANGED <<array, errno, loc, ret, g>>

\* swap the pivot to its place, then the two recursive calls: the left one
\* starts, the right one is pending
EarlierQuickPlace ==
    /\ op = "earlier_quicksort" /\ pc = "place"
    /\ UNCHANGED <<inputs, found_size, found, found_capacity, heap,
                   range_stack, range_stack_capacity>>
    /\ IF ~(InBlock(loc.left) /\ InBlock(loc.pivot))
       THEN EarlierQuickOutside
       ELSE \E ok \in AllocOutcomes(arg.type_size) :
            IF ~ok
            THEN /\ errno' = "ENOMEM"
                 /\ Return("-1", "swap", Allocated(g, FALSE))
                 /\ UNCHANGED <<array, loc>>
            ELSE LET left_size == (loc.left - loc.base) \div arg.type_size
                     right_size == SubSz(SubSz(loc.size, left_size), 1)
                     right == RightPart(loc.base, left_size, arg.type_size)
                 IN
                 /\ array' = SwappedBytes(array, loc.left, loc.pivot)
                 /\ g' = Allocated(g, TRUE)
                 /\ loc' = [loc EXCEPT
                        !.left_size = left_size, !.right_size = right_size,
                        !.caller = loc.base, !.right_part = right,
                        !.partitioned = TRUE,
                        !.size = left_size,
                        !.pending = <<[array |-> right,
                                       size |-> right_size]>> \o @]
                 /\ pc' = "call"
                 /\ UNCHANGED <<errno, ret>>

NextEarlierQuick ==
    \/ EarlierQuickEntry \/ EarlierQuickCall \/ EarlierQuickLeftScan
    \/ EarlierQuickRightScan \/ EarlierQuickSwap \/ EarlierQuickPlace

\* the earlier routines on the shortest arrays, and the earlier quicksort on
\* arrays of integers of one and of two bytes
InitEarlier ==
    \/ InitValid({<<"earlier_binary_search">>}, ShortArrays, ErrnoValues)
    \/ InitBadArgs(EarlierOps)
    \/ \E n \in 0..MaxSortLen, ts \in TypeSizes, e \in ErrnoValues :
        \E bytes \in ByteArrays(n, ts) :
            InitCall(<<"earlier_quicksort">>, bytes,
                     Args(FALSE, FALSE, FALSE, FALSE, n, ts, Elem(1, 0),
                          <<>>, 0), e)

NextEarlier == NextEarlierBinary \/ NextEarlierQuick

SpecEarlier == InitEarlier /\ [][NextEarlier]_vars

\* a and b hold the same values the same number of times
SameValues(a, b) ==
    /\ Len(a) = Len(b)
    /\ \A x \in DOMAIN a :
        Cardinality({y \in DOMAIN a : a[y] = a[x]})
            = Cardinality({y \in DOMAIN b : b[y] = a[x]})

\* C29: in the earlier recursive quicksort, for every element size, the
\* second recursive call starts at the element of index left_size + 1, right
\* after the pivot, and the call returns 0 with the array a non-decreasing
\* permutation of its input.
C29_EarlierQuicksortSorts ==
    (op = "earlier_quicksort" /\ ArgsAccepted /\ NothingFailed) =>
        /\ (loc.partitioned /\ loc.right_size >= 1) =>
            loc.right_part
                = RightPartScaled(loc.caller, loc.left_size, arg.type_size)
        /\ Done =>
            /\ ret = "0"
            /\ Sorted(Elements(array))
            /\ SameValues(Elements(array), Elements(array0))

\* C30: the earlier binary_search, on a sorted array with no element equal
\* to the target, the empty array included, returns NULL with
\* *found_size == 0 and reads only elements at indices 0..size-1.
C30_EarlierBinaryNoMatch ==
    (op = "earlier_binary_search" /\ Done /\ ArgsAccepted
        /\ g.cberrs = 0 /\ Sorted(array0)
        /\ \A x \in DOMAIN array0 : ~EqualsTarget(array0[x])) =>
        /\ ret = "NULL"
        /\ found_size = 0
        /\ g.touched \subseteq 0..LastIndex

====
